---------------------------- MODULE Spec2Model ----------------------------
(***************************************************************************)
(* Model of the Python SDK client of the nooterra repository               *)
(* (packages/api-sdk-python/nooterra_api_sdk/client.py):                   *)
(*   - the parity adapter (_NooterraParityAdapterBase.invoke and its http  *)
(*     and mcp bindings): operation resolution, payload validation, the    *)
(*     attempt loop, error coercion and retry classification;              *)
(*   - the server-sent-event reader shared by stream_public_agent_cards    *)
(*     and stream_session_events.                                          *)
(*                                                                         *)
(* Text values are sequences of tokens.  A token is one character (" ",    *)
(* ":", "/", a hex digit ...) or a whole word that the code only ever      *)
(* compares, trims or changes the case of ("busy", "event", "foo").        *)
(* Python's None is the distinguished value None.                          *)
(***************************************************************************)
EXTENDS Integers, Sequences, FiniteSets, TLC

\* ------------------------------------------------------------------ text

None == << "<None>" >>

S(w) == << w >>

WhiteSpace == {" ", "\t", "\r", "\n"}

RECURSIVE LStrip(_)
LStrip(s) == IF s # << >> /\ Head(s) \in WhiteSpace THEN LStrip(Tail(s)) ELSE s

RECURSIVE RStrip(_)
RStrip(s) ==
    IF s # << >> /\ s[Len(s)] \in WhiteSpace
    THEN RStrip(SubSeq(s, 1, Len(s) - 1))
    ELSE s

\* str.strip()
Strip(s) == RStrip(LStrip(s))

UpperTok(t) ==
    CASE t = "busy" -> "BUSY"
      [] t = "Busy" -> "BUSY"
      [] t = "post" -> "POST"
      [] t = "a" -> "A"
      [] t = "b" -> "B"
      [] t = "c" -> "C"
      [] t = "d" -> "D"
      [] t = "e" -> "E"
      [] t = "f" -> "F"
      [] t = "g" -> "G"
      [] OTHER -> t

LowerTok(t) ==
    CASE t = "BUSY" -> "busy"
      [] t = "Busy" -> "busy"
      [] t = "POST" -> "post"
      [] t = "X-Request-Id" -> "x-request-id"
      [] t = "A" -> "a"
      [] t = "B" -> "b"
      [] t = "C" -> "c"
      [] t = "D" -> "d"
      [] t = "E" -> "e"
      [] t = "F" -> "f"
      [] t = "G" -> "g"
      [] OTHER -> t

\* str.upper() and str.lower()
Upper(s) == [i \in 1..Len(s) |-> UpperTok(s[i])]
Lower(s) == [i \in 1..Len(s) |-> LowerTok(s[i])]

\* _as_non_empty_string_or_none: v is a tagged value or None
\* (a value is [t |-> "str", v |-> text], [t |-> "int", v |-> n],
\*  [t |-> "dict", v |-> mapping], [t |-> "bool", v |-> b] or NoneV)
NoneV == [t |-> "none", v |-> None]
Str(s) == [t |-> "str", v |-> s]
Int_(n) == [t |-> "int", v |-> n]
Dict(d) == [t |-> "dict", v |-> d]

as_non_empty_string_or_none(value) ==
    IF value.t # "str" THEN None
    ELSE LET trimmed == Strip(value.v)
         IN IF trimmed # << >> THEN trimmed ELSE None

HexDigits == {"0", "1", "2", "3", "4", "5", "6", "7", "8", "9",
              "a", "b", "c", "d", "e", "f"}

Sha256HexLen == 64

\* variant: every value passes
assert_sha256_hexM(value) ==
    [ok |-> TRUE, raw |-> IF value.t = "str" THEN Lower(Strip(value.v)) ELSE << >>]

\* _assert_sha256_hex: "ok" with the normalised text, or a ValueError
assert_sha256_hex(value) ==
    LET raw == IF value.t = "str" THEN Lower(Strip(value.v)) ELSE << >>
    IN IF Len(raw) # Sha256HexLen \/ \E i \in 1..Len(raw) : raw[i] \notin HexDigits
       THEN [ok |-> FALSE, raw |-> None]
       ELSE [ok |-> TRUE, raw |-> raw]


\* dict.get(key): the value of a mapping at key, None when absent
Get(d, key) == IF key \in DOMAIN d THEN d[key] ELSE NoneV

\* a text, or None, as a value
V(text) == IF text = None THEN NoneV ELSE Str(text)

\* Python truthiness, bool(value)
Truthy(value) ==
    CASE value.t = "none" -> FALSE
      [] value.t = "bool" -> value.v
      [] value.t = "int" -> value.v # 0
      [] value.t = "str" -> value.v # << >>
      [] OTHER -> TRUE

\* str.split("."): the parts of a dotted path, empty parts included
RECURSIVE SplitDots(_, _, _)
SplitDots(s, cur, acc) ==
    IF s = << >> THEN Append(acc, cur)
    ELSE IF Head(s) = "." THEN SplitDots(Tail(s), << >>, Append(acc, cur))
    ELSE SplitDots(Tail(s), Append(cur, Head(s)), acc)

RECURSIVE Walk(_, _)
Walk(cursor, parts) ==
    IF parts = << >> THEN cursor
    ELSE LET part == Head(parts)
         IN IF cursor.t # "dict" \/ Len(part) # 1 THEN NoneV
            ELSE IF part[1] \notin DOMAIN cursor.v THEN NoneV
            ELSE Walk(cursor.v[part[1]], Tail(parts))

\* _get_value_at_path
get_value_at_path(target, field_path) ==
    LET NonEmpty(part) == part # << >>
        parts == SelectSeq(SplitDots(field_path, << >>, << >>), NonEmpty)
    IN Walk(target, parts)

\* ---------------------------------------------------------------- errors

\* _PARITY_REASON_CODE[key]
PARITY_REASON_CODE(key) == << "PARITY_", key >>

PARITY_DEFAULT_RETRY_STATUS_CODES == {408, 409, 425, 429, 500, 502, 503, 504}

\* The request context every error of one invoke carries
Ctx(request_id, idempotency_key, transport, operation_id) ==
    [request_id |-> request_id, idempotency_key |-> idempotency_key,
     transport |-> transport, operation_id |-> operation_id]

\* _create_parity_error, through NooterraParityError.__init__
\* (code, message and the context's fields are values, normalised here)
create_parity_error(status, code, message, details, retryable, attempts, ctx) ==
    LET normalized_message == as_non_empty_string_or_none(message)
        normalized_code == as_non_empty_string_or_none(code)
    IN [type |-> "NooterraParityError",
        status |-> status,
        code |-> IF normalized_code # None THEN normalized_code
                 ELSE PARITY_REASON_CODE("REQUEST_REJECTED"),
        message |-> IF normalized_message # None THEN normalized_message
                    ELSE << "request failed (", ToString(status), ")" >>,
        details |-> details,
        request_id |-> as_non_empty_string_or_none(ctx.request_id),
        retryable |-> retryable,
        attempts |-> IF attempts > 0 THEN attempts ELSE 1,
        idempotency_key |-> as_non_empty_string_or_none(ctx.idempotency_key),
        transport |-> ctx.transport,
        operation_id |-> as_non_empty_string_or_none(ctx.operation_id)]

\* variant: validation errors marked retryable
parity_validation_errorM(key, message, transport, operation_id, idempotency_key, details) ==
    create_parity_error(400, Str(PARITY_REASON_CODE(key)), Str(message), details,
                        TRUE, 1,
                        Ctx(NoneV, idempotency_key, transport, operation_id))

\* _raise_parity_validation_error: the error it raises
parity_validation_error(key, message, transport, operation_id, idempotency_key, details) ==
    create_parity_error(400, Str(PARITY_REASON_CODE(key)), Str(message), details,
                        FALSE, 1,
                        Ctx(NoneV, idempotency_key, transport, operation_id))

\* NooterraApiError(status, message, code, details, request_id)
ApiError(status, message, code, details, request_id) ==
    [type |-> "NooterraApiError", status |-> status, code |-> code,
     message |-> message, details |-> details, request_id |-> request_id,
     retryable |-> FALSE, attempts |-> 0, idempotency_key |-> None,
     transport |-> "", operation_id |-> None]

\* Any other exception: ValueError, URLError, TimeoutError ...
OtherError(type, message) ==
    [type |-> type, status |-> 0, code |-> None, message |-> message,
     details |-> NoneV, request_id |-> None, retryable |-> FALSE,
     attempts |-> 0, idempotency_key |-> None, transport |-> "",
     operation_id |-> None]

NoError == OtherError("", << >>)

\* ------------------------------------------------------- adapter set-up

List(items) == [t |-> "list", v |-> items]
Callable(name) == [t |-> "callable", v |-> name]

SeqToSet(q) == {q[i] : i \in 1..Len(q)}

HttpStatusMin == 100
HttpStatusMax == 599

\* _normalize_retry_status_codes: the set, or a ValueError
normalize_retry_status_codes(value) ==
    IF value.t = "none" THEN [ok |-> TRUE, set |-> PARITY_DEFAULT_RETRY_STATUS_CODES]
    ELSE IF value.t # "list" THEN [ok |-> FALSE, set |-> {}]
    ELSE IF \E i \in 1..Len(value.v) : value.v[i] < HttpStatusMin \/ value.v[i] > HttpStatusMax
         THEN [ok |-> FALSE, set |-> {}]
    ELSE [ok |-> TRUE, set |-> SeqToSet(value.v)]

\* _normalize_retry_codes: the set of upper-cased trimmed codes, or a ValueError
normalize_retry_codes(value) ==
    IF value.t = "none" THEN [ok |-> TRUE, set |-> {}]
    ELSE IF value.t # "list" THEN [ok |-> FALSE, set |-> {}]
    ELSE IF \E i \in 1..Len(value.v) : as_non_empty_string_or_none(value.v[i]) = None
         THEN [ok |-> FALSE, set |-> {}]
    ELSE [ok |-> TRUE,
          set |-> {Upper(as_non_empty_string_or_none(value.v[i])) : i \in 1..Len(value.v)}]

\* The caller's delay functions: retry_delay_seconds(attempt)
CallDelay(name, attempt) ==
    CASE name = "linear" -> attempt
      [] name = "shrinking" -> 1 - attempt
      [] OTHER -> 0

\* _resolve_retry_delay_seconds: the delay, or a ValueError
resolve_retry_delay_seconds(retry_delay_seconds, attempt) ==
    LET value == CASE retry_delay_seconds.t = "callable" -> CallDelay(retry_delay_seconds.v, attempt)
                   [] retry_delay_seconds.t = "none" -> 0
                   [] OTHER -> retry_delay_seconds.v
    IN IF value < 0 THEN [ok |-> FALSE, value |-> value]
       ELSE [ok |-> TRUE, value |-> value]

\* _NooterraParityAdapterBase.__init__ (and NooterraMcpParityAdapter.__init__)
ParityAdapter(transport, max_attempts, retry_status_codes, retry_codes, retry_delay_seconds, call_tool) ==
    [transport |-> transport,
     max_attempts |-> max_attempts,
     retry_status_codes |-> normalize_retry_status_codes(retry_status_codes).set,
     retry_codes |-> normalize_retry_codes(retry_codes).set,
     retry_delay_seconds |-> retry_delay_seconds,
     call_tool |-> call_tool,
     raw_retry_status_codes |-> retry_status_codes,
     raw_retry_codes |-> retry_codes]

\* variant: the constructor takes a max_attempts of 0
ConstructorAcceptsM(max_attempts, retry_status_codes, retry_codes) ==
    /\ max_attempts >= 0
    /\ normalize_retry_status_codes(retry_status_codes).ok
    /\ normalize_retry_codes(retry_codes).ok

\* The constructor raises ValueError instead of building the adapter
ConstructorAccepts(max_attempts, retry_status_codes, retry_codes) ==
    /\ max_attempts > 0
    /\ normalize_retry_status_codes(retry_status_codes).ok
    /\ normalize_retry_codes(retry_codes).ok

\* variant: every failure is retryable
is_retryableM(adapter, parity_error) == TRUE

\* variant: codes compared without upper-casing
is_retryableCaseSensitive(adapter, parity_error) ==
    LET status == parity_error.status
        code == as_non_empty_string_or_none(V(parity_error.code))
    IN IF status <= 0 THEN TRUE
       ELSE IF status \in adapter.retry_status_codes THEN TRUE
       ELSE IF code # None /\ code \in adapter.retry_codes THEN TRUE
       ELSE FALSE

\* _NooterraParityAdapterBase._is_retryable
is_retryable(adapter, parity_error) ==
    LET status == parity_error.status
        code == as_non_empty_string_or_none(V(parity_error.code))
    IN IF status <= 0 THEN TRUE
       ELSE IF status \in adapter.retry_status_codes THEN TRUE
       ELSE IF code # None /\ Upper(code) \in adapter.retry_codes THEN TRUE
       ELSE FALSE

\* ------------------------------------------- operation and payload checks

\* str(item) for the items the model explores
StrOf(item) ==
    CASE item.t = "str" -> item.v
      [] item.t = "int" -> << ToString(item.v) >>
      [] OTHER -> << "None" >>

\* [str(item) for item in value] if value is a list, else []
ListOrEmpty(value) ==
    IF value.t = "list" THEN [i \in 1..Len(value.v) |-> StrOf(value.v[i])] ELSE << >>

\* _resolve_parity_operation: the resolved descriptor, or a ValueError
\* the http adapter takes only a path that starts with "/"
path_acceptedM(path) == path # None

path_accepted(path) == path # None /\ Head(path) = "/"

\* idempotencyRequired of the resolved operation: True unless the descriptor
\* gives a value, then bool() of that value
idempotency_requiredM(value) == Truthy(value)

idempotency_required(value) == IF value.t = "none" THEN TRUE ELSE Truthy(value)

resolve_parity_operation(operation, transport) ==
    LET Fail(msg) == [ok |-> FALSE, message |-> S(msg), op |-> NoneV]
        o == operation.v
        operation_id == as_non_empty_string_or_none(Get(o, "operationId"))
        Resolved(method, path, tool_name) ==
            [ok |-> TRUE, message |-> << >>,
             op |-> [transport |-> transport,
                     operationId |-> operation_id,
                     method |-> method,
                     path |-> path,
                     toolName |-> tool_name,
                     requiredFields |-> ListOrEmpty(Get(o, "requiredFields")),
                     sha256Fields |-> ListOrEmpty(Get(o, "sha256Fields")),
                     idempotencyRequired |->
                         idempotency_required(Get(o, "idempotencyRequired")),
                     expectedPrevChainHashRequired |->
                         Truthy(Get(o, "expectedPrevChainHashRequired"))]]
    IN IF operation.t # "dict" THEN Fail("operation must be an object")
       ELSE IF operation_id = None THEN Fail("operation.operationId is required")
       ELSE IF transport = "http"
       THEN LET method == as_non_empty_string_or_none(Get(o, "method"))
                path == as_non_empty_string_or_none(Get(o, "path"))
            IN IF method = None
               THEN Fail("operation.method is required for http parity adapter")
               ELSE IF ~path_accepted(path)
               THEN Fail("operation.path is required for http parity adapter")
               ELSE Resolved(Upper(method), path, None)
       ELSE LET tool_name == as_non_empty_string_or_none(Get(o, "toolName"))
            IN IF tool_name = None
               THEN Fail("operation.toolName is required for mcp parity adapter")
               ELSE Resolved(None, None, tool_name)

\* variant: the last failing field instead of the first
MinM(set) == CHOOSE x \in set : \A y \in set : x >= y

Min(set) == CHOOSE x \in set : \A y \in set : x <= y

\* _validate_parity_payload: the validation error it raises, or NoError
validate_parity_payload(payload, operation, transport, idempotency_key, expected_prev_chain_hash) ==
    LET opid == V(operation.operationId)
        key == V(idempotency_key)
        prev == V(expected_prev_chain_hash)
        Missing(i) ==
            LET value == get_value_at_path(payload, operation.requiredFields[i])
            IN value.t = "none" \/ (value.t = "str" /\ Strip(value.v) = << >>)
        BadSha(i) ==
            ~assert_sha256_hex(get_value_at_path(payload, operation.sha256Fields[i])).ok
        missing == {i \in 1..Len(operation.requiredFields) : Missing(i)}
        badsha == {i \in 1..Len(operation.sha256Fields) : BadSha(i)}
        Field(path) == Dict([field |-> Str(path)])
    IN IF payload.t # "dict"
       THEN parity_validation_error("PAYLOAD_REQUIRED", S("payload must be an object"),
                                    transport, opid, key, NoneV)
       ELSE IF missing # {}
       THEN LET field_path == operation.requiredFields[Min(missing)]
            IN parity_validation_error("REQUIRED_FIELD_MISSING",
                                       <<"payload.">> \o field_path \o <<" is required">>,
                                       transport, opid, key, Field(field_path))
       ELSE IF badsha # {}
       THEN LET field_path == operation.sha256Fields[Min(badsha)]
            IN parity_validation_error("SHA256_FIELD_INVALID",
                                       <<"payload.">> \o field_path \o <<" must be sha256 hex">>,
                                       transport, opid, key, Field(field_path))
       ELSE IF operation.idempotencyRequired /\ as_non_empty_string_or_none(key) = None
       THEN parity_validation_error("IDEMPOTENCY_KEY_REQUIRED", S("idempotency_key is required"),
                                    transport, opid, NoneV, NoneV)
       ELSE IF operation.expectedPrevChainHashRequired /\ as_non_empty_string_or_none(prev) = None
       THEN parity_validation_error("EXPECTED_PREV_CHAIN_HASH_REQUIRED",
                                    S("expected_prev_chain_hash is required"),
                                    transport, opid, key, NoneV)
       ELSE IF as_non_empty_string_or_none(prev) # None /\ ~assert_sha256_hex(prev).ok
       THEN parity_validation_error("EXPECTED_PREV_CHAIN_HASH_REQUIRED",
                                    S("expected_prev_chain_hash must be sha256 hex"),
                                    transport, opid, key, NoneV)
       ELSE NoError

\* ------------------------------------------------------------ transports

\* a or b, for texts: Python's "or" takes b when a is None or empty
Or(a, b) == IF a # None /\ a # << >> THEN a ELSE b

\* _normalize_headers_record: lower-cased names, None values dropped,
\* values as text
normalize_headers_record(value) ==
    IF value.t # "dict" THEN << >>
    ELSE LET kept == {k \in DOMAIN value.v : value.v[k].t # "none"}
         IN [n \in {LowerTok(k) : k \in kept} |->
                value.v[CHOOSE k \in kept : LowerTok(k) = n].v]

\* headers.get(name)
HeaderGet(headers, name) == IF name \in DOMAIN headers THEN headers[name] ELSE None

\* int(text) for the numerals the model uses; FALSE when int() raises
IntOfText(text) ==
    CASE text = << "200" >> -> [ok |-> TRUE, v |-> 200]
      [] text = << "404" >> -> [ok |-> TRUE, v |-> 404]
      [] text = << "503" >> -> [ok |-> TRUE, v |-> 503]
      [] OTHER -> [ok |-> FALSE, v |-> 0]

\* variant: a conversion that never fails
IntOfM(value) == [ok |-> TRUE, v |-> IF value.t = "int" THEN value.v ELSE 0]

\* int(value), as the mcp adapter and _coerce_http_status_or_none call it
IntOf(value) ==
    CASE value.t = "int" -> [ok |-> TRUE, v |-> value.v]
      [] value.t = "bool" -> [ok |-> TRUE, v |-> IF value.v THEN 1 ELSE 0]
      [] value.t = "str" -> IntOfText(Strip(value.v))
      [] OTHER -> [ok |-> FALSE, v |-> 0]

\* _coerce_http_status_or_none: the status, or None
coerce_http_status_or_none(value) ==
    IF value.t = "none" \/ value.t = "bool" THEN NoneV
    ELSE LET parsed == IntOf(value)
         IN IF ~parsed.ok THEN NoneV
            ELSE IF parsed.v < HttpStatusMin \/ parsed.v > HttpStatusMax THEN NoneV
            ELSE Int_(parsed.v)

\* What one call of _invoke_once gives the attempt loop: a value, or an exception
Returned(raw) == [raised |-> FALSE, raw |-> raw, exc |-> NoError]
Raised(exc) == [raised |-> TRUE, raw |-> NoneV, exc |-> exc]

Bool(b) == [t |-> "bool", v |-> b]

\* what call_tool does when called: it returns raw, or raises exc
McpReturn(raw) == [kind |-> "return", raw |-> raw, exc |-> NoError]
McpRaise(exc) == [kind |-> "raise", raw |-> NoneV, exc |-> exc]

\* variant: a new request id on every call
client_requestM(method, path, body, request_id, idempotency_key, expected_prev_chain_hash, fresh) ==
    [method |-> method, path |-> path, body |-> body,
     request_id |-> fresh,
     idempotency_key |-> idempotency_key,
     expected_prev_chain_hash |-> expected_prev_chain_hash]

\* NooterraClient._request: the request it sends.  fresh is what
\* _random_request_id() returns if it is called.
client_request(method, path, body, request_id, idempotency_key, expected_prev_chain_hash, fresh) ==
    LET rid == IF request_id # None /\ request_id # << >> THEN request_id ELSE fresh
    IN [method |-> method, path |-> path, body |-> body,
        request_id |-> rid,
        idempotency_key |-> IF idempotency_key # None /\ idempotency_key # << >>
                            THEN idempotency_key ELSE None,
        expected_prev_chain_hash |->
            IF expected_prev_chain_hash # None /\ expected_prev_chain_hash # << >>
            THEN expected_prev_chain_hash ELSE None]

\* NooterraClient._request: what it returns or raises for the server's answer
client_response(env) ==
    CASE env.kind = "response" ->
            Returned(Dict([ok |-> Bool(TRUE), status |-> Int_(env.status),
                           requestId |-> V(env.requestId), body |-> env.body,
                           headers |-> Dict(<< >>)]))
      [] env.kind = "HTTPError" ->
            Raised(ApiError(env.status, << "request failed (", ToString(env.status), ")" >>,
                            env.code, NoneV, env.requestId))
      [] OTHER -> Raised(env.exc)

\* NooterraMcpParityAdapter._invoke_once: the arguments it hands to call_tool
mcp_request(operation, payload, request_id, idempotency_key, expected_prev_chain_hash) ==
    [toolName |-> operation.toolName, operationId |-> operation.operationId,
     body |-> payload,
     request_id |-> request_id,
     idempotency_key |-> idempotency_key,
     expected_prev_chain_hash |-> expected_prev_chain_hash,
     header_request_id |-> request_id,
     header_idempotency_key |->
         IF idempotency_key # None /\ idempotency_key # << >> THEN idempotency_key ELSE None,
     header_expected_prev_chain_hash |->
         IF expected_prev_chain_hash # None /\ expected_prev_chain_hash # << >>
         THEN expected_prev_chain_hash ELSE None]

\* the answer of call_tool reports a failure: ok is False, or there is an error
mcp_failedM(r) == Get(r, "error").t # "none"

mcp_failed(r) ==
    (Get(r, "ok").t = "bool" /\ Get(r, "ok").v = FALSE) \/ Get(r, "error").t # "none"

\* NooterraMcpParityAdapter._invoke_once, after call_tool answered with env
mcp_response(operation, request_id, idempotency_key, env) ==
    LET ctx(rid) == Ctx(V(rid), V(idempotency_key), "mcp", V(operation.operationId))
        raw == env.raw
        r == raw.v
        headers == normalize_headers_record(Get(r, "headers"))
        response_request_id ==
            Or(Or(as_non_empty_string_or_none(Get(r, "requestId")),
                  HeaderGet(headers, "x-request-id")),
               request_id)
        failed == mcp_failed(r)
        default_status == IF failed THEN 500 ELSE 200
        parsed == IF Get(r, "status").t # "none" THEN IntOf(Get(r, "status"))
                  ELSE [ok |-> TRUE, v |-> default_status]
        status == parsed.v
        err_body == IF Get(r, "error").t = "dict" THEN Get(r, "error").v ELSE << >>
        error_status == coerce_http_status_or_none(Get(err_body, "status"))
        body == IF "body" \in DOMAIN r THEN r["body"]
                ELSE IF "result" \in DOMAIN r THEN r["result"] ELSE Get(r, "data")
    IN IF env.kind = "raise" THEN Raised(env.exc)
       ELSE IF raw.t # "dict"
       THEN Raised(create_parity_error(502, Str(PARITY_REASON_CODE("RESPONSE_INVALID")),
                                       Str(S("mcp response must be an object")), NoneV,
                                       FALSE, 1, ctx(request_id)))
       ELSE IF ~parsed.ok
       THEN Raised(create_parity_error(502, Str(PARITY_REASON_CODE("RESPONSE_INVALID")),
                                       Str(S("mcp response status must be a valid HTTP status integer")),
                                       NoneV, FALSE, 1, ctx(response_request_id)))
       ELSE IF failed \/ status >= 400
       THEN Raised(create_parity_error(
                IF error_status.t # "none" THEN error_status.v ELSE status,
                V(Or(Or(as_non_empty_string_or_none(Get(r, "code")),
                        as_non_empty_string_or_none(Get(err_body, "code"))),
                     PARITY_REASON_CODE("REQUEST_REJECTED"))),
                V(Or(Or(Or(as_non_empty_string_or_none(Get(r, "message")),
                           as_non_empty_string_or_none(Get(err_body, "message"))),
                        as_non_empty_string_or_none(Get(err_body, "error"))),
                     << "request failed (", ToString(status), ")" >>)),
                IF Get(r, "details").t # "none" THEN Get(r, "details") ELSE Get(err_body, "details"),
                FALSE, 1, ctx(response_request_id)))
       ELSE Returned(Dict([ok |-> Bool(TRUE), status |-> Int_(status),
                           requestId |-> V(response_request_id),
                           headers |-> Dict([h \in DOMAIN headers |-> Str(headers[h])]),
                           body |-> body]))

\* the error NooterraMcpParityAdapter._invoke_once raises without a call_tool
mcp_call_required(operation, idempotency_key) ==
    parity_validation_error("MCP_CALL_REQUIRED", S("call_tool function is required"),
                            "mcp", V(operation.operationId), V(idempotency_key), NoneV)

\* ------------------------------------------------------ the attempt loop

\* variant: unknown exceptions coerced to status 500
coerce_parity_errorM(exc, transport, operation_id, request_id, idempotency_key, attempt) ==
    LET ctx(rid) == Ctx(V(rid), V(idempotency_key), transport, V(operation_id))
    IN CASE exc.type = "NooterraParityError" ->
              create_parity_error(exc.status,
                                  V(Or(exc.code, PARITY_REASON_CODE("REQUEST_REJECTED"))),
                                  Str(exc.message), exc.details, exc.retryable, attempt,
                                  ctx(Or(exc.request_id, request_id)))
         [] exc.type = "NooterraApiError" ->
              create_parity_error(exc.status,
                                  V(Or(exc.code, PARITY_REASON_CODE("REQUEST_REJECTED"))),
                                  Str(exc.message), exc.details, FALSE, attempt,
                                  ctx(Or(exc.request_id, request_id)))
         [] OTHER ->
              create_parity_error(500, Str(PARITY_REASON_CODE("TRANSPORT_ERROR")),
                                  Str(IF exc.message # << >> THEN exc.message
                                      ELSE S("transport error")),
                                  Dict([causeName |-> Str(S(exc.type))]), FALSE, attempt,
                                  ctx(request_id))

\* _coerce_parity_error
coerce_parity_error(exc, transport, operation_id, request_id, idempotency_key, attempt) ==
    LET ctx(rid) == Ctx(V(rid), V(idempotency_key), transport, V(operation_id))
    IN CASE exc.type = "NooterraParityError" ->
              create_parity_error(exc.status,
                                  V(Or(exc.code, PARITY_REASON_CODE("REQUEST_REJECTED"))),
                                  Str(exc.message), exc.details, exc.retryable, attempt,
                                  ctx(Or(exc.request_id, request_id)))
         [] exc.type = "NooterraApiError" ->
              create_parity_error(exc.status,
                                  V(Or(exc.code, PARITY_REASON_CODE("REQUEST_REJECTED"))),
                                  Str(exc.message), exc.details, FALSE, attempt,
                                  ctx(Or(exc.request_id, request_id)))
         [] OTHER ->
              create_parity_error(0, Str(PARITY_REASON_CODE("TRANSPORT_ERROR")),
                                  Str(IF exc.message # << >> THEN exc.message
                                      ELSE S("transport error")),
                                  Dict([causeName |-> Str(S(exc.type))]), FALSE, attempt,
                                  ctx(request_id))

\* variant: every status from 200 up is a rejection
response_rejectedM(ok, status) == ~Truthy(ok) \/ status >= 200

\* the test "bool(raw.get("ok")) is False or status >= 400" of invoke
response_rejected(ok, status) == ~Truthy(ok) \/ status >= 400

\* The try block of invoke after _invoke_once: the success result, or the
\* exception that reaches the except clause
try_block(adapter, res, attempt, io) ==
    LET ctx(rid) == Ctx(V(rid), V(res.idempotency_key), adapter.transport,
                        V(res.operation.operationId))
        raw == io.raw
        r == raw.v
        headers == normalize_headers_record(Get(r, "headers"))
        request_id_out == Or(as_non_empty_string_or_none(Get(r, "requestId")),
                             HeaderGet(headers, "x-request-id"))
        status == Get(r, "status")
    IN IF io.raised THEN [ok |-> FALSE, exc |-> io.exc, result |-> NoneV]
       ELSE IF raw.t # "dict"
       THEN [ok |-> FALSE, result |-> NoneV,
             exc |-> create_parity_error(502, Str(PARITY_REASON_CODE("RESPONSE_INVALID")),
                                         Str(S("transport response must be an object")),
                                         NoneV, FALSE, 1, ctx(res.request_id))]
       ELSE IF status.t # "int"
       THEN [ok |-> FALSE, result |-> NoneV,
             exc |-> create_parity_error(502, Str(PARITY_REASON_CODE("RESPONSE_INVALID")),
                                         Str(S("transport response missing valid status")),
                                         NoneV, FALSE, 1,
                                         ctx(Or(request_id_out, res.request_id)))]
       ELSE IF response_rejected(Get(r, "ok"), status.v)
       THEN [ok |-> FALSE, result |-> NoneV,
             exc |-> create_parity_error(
                         status.v,
                         V(Or(as_non_empty_string_or_none(Get(r, "code")),
                              PARITY_REASON_CODE("REQUEST_REJECTED"))),
                         V(Or(as_non_empty_string_or_none(Get(r, "message")),
                              << "request failed (", ToString(status.v), ")" >>)),
                         Get(r, "details"), FALSE, 1,
                         ctx(Or(request_id_out, res.request_id)))]
       ELSE [ok |-> TRUE, exc |-> NoError,
             result |-> [ok |-> TRUE, status |-> status.v, requestId |-> request_id_out,
                         body |-> Get(r, "body"), headers |-> headers,
                         transport |-> adapter.transport,
                         operationId |-> res.operation.operationId,
                         idempotencyKey |-> res.idempotency_key,
                         attempts |-> attempt]]

\* variant: the error is raised one attempt too late
except_clauseLate(adapter, res, attempt, exc) ==
    LET coerced == coerce_parity_error(exc, adapter.transport, res.operation.operationId,
                                       res.request_id, res.idempotency_key, attempt)
        parity_error == [coerced EXCEPT !.retryable = is_retryable(adapter, coerced),
                                        !.attempts = attempt]
    IN [parity_error |-> parity_error,
        raise |-> (~parity_error.retryable) \/ attempt > adapter.max_attempts]

\* variant: the error is raised one attempt too early
except_clauseM(adapter, res, attempt, exc) ==
    LET coerced == coerce_parity_error(exc, adapter.transport, res.operation.operationId,
                                       res.request_id, res.idempotency_key, attempt)
        parity_error == [coerced EXCEPT !.retryable = is_retryable(adapter, coerced),
                                        !.attempts = attempt]
    IN [parity_error |-> parity_error,
        raise |-> (~parity_error.retryable) \/ attempt + 1 >= adapter.max_attempts]

\* variant: a Parity Error that was raised keeps its own retryable and attempts
except_clauseTrusting(adapter, res, attempt, exc) ==
    LET coerced == coerce_parity_error(exc, adapter.transport, res.operation.operationId,
                                       res.request_id, res.idempotency_key, attempt)
        parity_error ==
            IF exc.type = "NooterraParityError"
            THEN [coerced EXCEPT !.retryable = exc.retryable, !.attempts = exc.attempts]
            ELSE [coerced EXCEPT !.retryable = is_retryable(adapter, coerced),
                                 !.attempts = attempt]
    IN [parity_error |-> parity_error,
        raise |-> (~parity_error.retryable) \/ attempt >= adapter.max_attempts]

\* The except clause of invoke up to its decision: the classified error and
\* whether it is raised now
except_clause(adapter, res, attempt, exc) ==
    LET coerced == coerce_parity_error(exc, adapter.transport, res.operation.operationId,
                                       res.request_id, res.idempotency_key, attempt)
        parity_error == [coerced EXCEPT !.retryable = is_retryable(adapter, coerced),
                                        !.attempts = attempt]
    IN [parity_error |-> parity_error,
        raise |-> (~parity_error.retryable) \/ attempt >= adapter.max_attempts]

\* ------------------------------------------------------------- the state

VARIABLES
    adapter,      \* the parity adapter, as its constructor left it
    pc,           \* per invoke call: "idle", "attempt", "delay", "returned", "raised"
    args,         \* per call: the arguments of invoke
    resolved,     \* per call: resolved_operation, resolved_request_id, ...
    attempt,      \* per call: the loop variable of invoke
    parity_error, \* per call: the error the except clause classified last
    outcome,      \* per call: the result returned, or the exception raised
    trace         \* per call: what the call did to the outside world, in order:
                  \* calls of _invoke_once (with the request it sent and the
                  \* answer it got) and delays

invokeVars == << adapter, pc, args, resolved, attempt, parity_error, outcome, trace >>

NoArgs == [operation |-> NoneV, payload |-> NoneV, request_id |-> NoneV,
           idempotency_key |-> NoneV, expected_prev_chain_hash |-> NoneV]

NoResolved == [operation |-> NoneV, request_id |-> None, idempotency_key |-> None,
               expected_prev_chain_hash |-> None]

NoOutcome == [kind |-> "none", result |-> NoneV, error |-> NoError]

\* variant: a result that counts one attempt
ResultOutcomeM(result) ==
    [kind |-> "result", result |-> [result EXCEPT !.attempts = 1], error |-> NoError]

ResultOutcome(result) == [kind |-> "result", result |-> result, error |-> NoError]
ErrorOutcome(error) == [kind |-> "error", result |-> NoneV, error |-> error]

\* trace entries
\* (wire: the call reached NooterraClient._request or call_tool)
Dispatched(n, wire, request, env) ==
    [e |-> "dispatch", attempt |-> n, wire |-> wire, request |-> request, env |-> env,
     value |-> 0, slept |-> FALSE]
Delayed(n, value, slept) ==
    [e |-> "delay", attempt |-> n, wire |-> FALSE, request |-> NoneV, env |-> NoneV,
     value |-> value, slept |-> slept]

InvokeInit(adapters, calls) ==
    /\ adapter \in adapters
    /\ pc = [c \in calls |-> "idle"]
    /\ args = [c \in calls |-> NoArgs]
    /\ resolved = [c \in calls |-> NoResolved]
    /\ attempt = [c \in calls |-> 0]
    /\ parity_error = [c \in calls |-> NoError]
    /\ outcome = [c \in calls |-> NoOutcome]
    /\ trace = [c \in calls |-> << >>]

\* the error of the raise after the loop of invoke
fallback_error(adapter_, res) ==
    create_parity_error(500, Str(PARITY_REASON_CODE("REQUEST_REJECTED")),
                        Str(S("request failed")), NoneV, FALSE, 1,
                        Ctx(V(res.request_id), V(res.idempotency_key),
                            adapter_.transport, V(res.operation.operationId)))

\* invoke, from its entry to the first attempt: operation resolution,
\* request id, payload validation; a loop over no attempt at all goes to the
\* raise after it.  fresh is what _random_request_id() returns.
InvokeStart(c, operation, payload, request_id, idempotency_key, expected_prev_chain_hash, fresh) ==
    LET op == resolve_parity_operation(operation, adapter.transport)
        resolved_request_id == Or(as_non_empty_string_or_none(request_id), fresh)
        resolved_idempotency_key == as_non_empty_string_or_none(idempotency_key)
        resolved_expected_prev_chain_hash == as_non_empty_string_or_none(expected_prev_chain_hash)
        invalid == validate_parity_payload(payload, op.op, adapter.transport,
                                           resolved_idempotency_key,
                                           resolved_expected_prev_chain_hash)
    IN /\ pc[c] = "idle"
       /\ args' = [args EXCEPT ![c] = [operation |-> operation, payload |-> payload,
                                       request_id |-> request_id,
                                       idempotency_key |-> idempotency_key,
                                       expected_prev_chain_hash |-> expected_prev_chain_hash]]
       /\ IF ~op.ok
          THEN /\ outcome' = [outcome EXCEPT ![c] = ErrorOutcome(
                     parity_validation_error(
                         "OPERATION_INVALID",
                         IF op.message # << >> THEN op.message ELSE S("operation is invalid"),
                         adapter.transport,
                         IF operation.t = "dict" THEN Get(operation.v, "operationId") ELSE NoneV,
                         idempotency_key, NoneV))]
               /\ pc' = [pc EXCEPT ![c] = "raised"]
               /\ UNCHANGED << resolved, attempt >>
          ELSE /\ resolved' = [resolved EXCEPT ![c] =
                     [operation |-> op.op, request_id |-> resolved_request_id,
                      idempotency_key |-> resolved_idempotency_key,
                      expected_prev_chain_hash |-> resolved_expected_prev_chain_hash]]
               /\ IF invalid # NoError
                  THEN /\ outcome' = [outcome EXCEPT ![c] = ErrorOutcome(invalid)]
                       /\ pc' = [pc EXCEPT ![c] = "raised"]
                       /\ UNCHANGED attempt
                  ELSE IF adapter.max_attempts < 1
                  THEN /\ outcome' = [outcome EXCEPT ![c] =
                             ErrorOutcome(fallback_error(adapter, resolved'[c]))]
                       /\ pc' = [pc EXCEPT ![c] = "raised"]
                       /\ UNCHANGED attempt
                  ELSE /\ pc' = [pc EXCEPT ![c] = "attempt"]
                       /\ attempt' = [attempt EXCEPT ![c] = 1]
                       /\ UNCHANGED outcome
       /\ UNCHANGED << adapter, parity_error, trace >>

\* The rest of one loop iteration of invoke once _invoke_once has returned or
\* raised io; called is the trace of the transport call made, if any
FinishAttempt(c, io, called) ==
    LET tried == try_block(adapter, resolved[c], attempt[c], io)
        caught == except_clause(adapter, resolved[c], attempt[c], tried.exc)
    IN /\ trace' = [trace EXCEPT ![c] = @ \o called]
       /\ IF tried.ok
          THEN /\ outcome' = [outcome EXCEPT ![c] = ResultOutcome(tried.result)]
               /\ pc' = [pc EXCEPT ![c] = "returned"]
               /\ UNCHANGED parity_error
          ELSE /\ parity_error' = [parity_error EXCEPT ![c] = caught.parity_error]
               /\ IF caught.raise
                  THEN /\ outcome' = [outcome EXCEPT ![c] = ErrorOutcome(caught.parity_error)]
                       /\ pc' = [pc EXCEPT ![c] = "raised"]
                  ELSE /\ pc' = [pc EXCEPT ![c] = "delay"]
                       /\ UNCHANGED outcome
       /\ UNCHANGED << adapter, args, resolved, attempt >>

\* One attempt of the http adapter: NooterraHttpParityAdapter._invoke_once
\* sends the request through NooterraClient._request, the server answers env
HttpAttempt(c, env, fresh) ==
    LET res == resolved[c]
        request == client_request(res.operation.method, res.operation.path, args[c].payload,
                                  res.request_id, res.idempotency_key,
                                  res.expected_prev_chain_hash, fresh)
    IN /\ pc[c] = "attempt"
       /\ adapter.transport = "http"
       /\ FinishAttempt(c, client_response(env), << Dispatched(attempt[c], TRUE, request, env) >>)

\* One attempt of the mcp adapter: NooterraMcpParityAdapter._invoke_once
\* calls call_tool, which answers env
McpAttempt(c, env) ==
    LET res == resolved[c]
        request == mcp_request(res.operation, args[c].payload, res.request_id,
                               res.idempotency_key, res.expected_prev_chain_hash)
    IN /\ pc[c] = "attempt"
       /\ adapter.transport = "mcp"
       /\ adapter.call_tool
       /\ FinishAttempt(c, mcp_response(res.operation, res.request_id, res.idempotency_key, env),
                        << Dispatched(attempt[c], TRUE, request, env) >>)

\* One attempt of an mcp adapter built without call_tool: _invoke_once raises
\* before any call
McpAttemptWithoutCallTool(c) ==
    /\ pc[c] = "attempt"
    /\ adapter.transport = "mcp"
    /\ ~adapter.call_tool
    /\ FinishAttempt(c, Raised(mcp_call_required(resolved[c].operation, resolved[c].idempotency_key)),
                     << Dispatched(attempt[c], FALSE, NoneV, McpRaise(NoError)) >>)

\* the loop variable of invoke: each call counts its own attempts
next_attemptM(attempts, c) == [o \in DOMAIN attempts |-> attempts[o] + 1]

\* variant: the loop variable stays where it is
next_attemptStuck(attempts, c) == attempts

next_attempt(attempts, c) == [attempts EXCEPT ![c] = @ + 1]

\* The end of the except clause: the delay is resolved and slept, and the loop
\* goes to the next attempt; the statement after the loop is the fallback raise
RetryDelay(c) ==
    LET delay == resolve_retry_delay_seconds(adapter.retry_delay_seconds, attempt[c])
        res == resolved[c]
    IN /\ pc[c] = "delay"
       /\ trace' = [trace EXCEPT ![c] = Append(@, Delayed(attempt[c], delay.value,
                                                         delay.ok /\ delay.value > 0))]
       /\ IF ~delay.ok
          THEN /\ outcome' = [outcome EXCEPT ![c] = ErrorOutcome(
                     OtherError("ValueError", S("retry_delay_seconds must be a non-negative number")))]
               /\ pc' = [pc EXCEPT ![c] = "raised"]
               /\ UNCHANGED attempt
          ELSE IF attempt[c] + 1 <= adapter.max_attempts
          THEN /\ attempt' = next_attempt(attempt, c)
               /\ pc' = [pc EXCEPT ![c] = "attempt"]
               /\ UNCHANGED outcome
          ELSE /\ outcome' = [outcome EXCEPT ![c] = ErrorOutcome(fallback_error(adapter, res))]
               /\ pc' = [pc EXCEPT ![c] = "raised"]
               /\ UNCHANGED attempt
       /\ UNCHANGED << adapter, args, resolved, parity_error >>

\* ------------------------------------------------- the values explored

MaxAttemptsBound == 3

\* a text of Sha256HexLen copies of one character
Hash(ch) == [i \in 1..Sha256HexLen |-> ch]

FreshIds == {S("req_a"), S("req_b")}

GoodOperation ==
    Dict([operationId |-> Str(S("op")), method |-> Str(S("post")),
          path |-> Str(<< "/", "runs" >>), toolName |-> Str(S("tool"))])

NoIdOperation ==
    Dict([method |-> Str(S("post")), path |-> Str(<< "/", "runs" >>),
          toolName |-> Str(S("tool"))])

GoodPayload == Dict([amountCents |-> Int_(5)])

PaddedKey == Str(<< " ", "k", "1", " " >>)

RetryOperations == {GoodOperation, NoIdOperation}
RetryPayloads == {GoodPayload, NoneV}
RetryRequestIds == {NoneV, Str(S("rid"))}
RetryKeys == {NoneV, PaddedKey}
RetryPrevHashes == {NoneV, Str(Hash("a"))}

RetryDelays == {Int_(0), Int_(2), Int_(-1), Callable("shrinking")}

RetryStatusLists == {NoneV, List(<< 400 >>)}
RetryCodeLists == {NoneV, List(<< Str(<< " ", "busy" >>) >>)}

\* the adapters create_http_parity_adapter and create_mcp_parity_adapter build
AdaptersOf(transports, attempts, statuses, codes, delays, tools) ==
    {ParityAdapter(x[1], x[2], x[3], x[4], x[5], x[6]) :
        x \in {y \in transports \X attempts \X statuses \X codes \X delays \X tools :
                  /\ ConstructorAccepts(y[2], y[3], y[4])
                  /\ (y[1] = "http" => ~y[6])}}

RetryAdapters ==
    AdaptersOf({"http", "mcp"}, 0..MaxAttemptsBound, RetryStatusLists, RetryCodeLists,
               RetryDelays, BOOLEAN)

\* what the server answers to NooterraClient._request
HttpAnswers ==
    {[kind |-> "response", status |-> 200, requestId |-> None, body |-> NoneV, exc |-> NoError],
     [kind |-> "HTTPError", status |-> 400, requestId |-> None, code |-> None, exc |-> NoError],
     [kind |-> "HTTPError", status |-> 409, requestId |-> S("srv"), code |-> S("Busy"), exc |-> NoError],
     [kind |-> "HTTPError", status |-> 503, requestId |-> None, code |-> None, exc |-> NoError],
     [kind |-> "exception", status |-> 0, requestId |-> None, code |-> None,
      exc |-> OtherError("URLError", S("connection refused"))]}

\* what call_tool answers
McpAnswers ==
    {McpReturn(Dict([ok |-> Bool(TRUE), status |-> Int_(200), body |-> Int_(1)])),
     McpReturn(Dict([ok |-> Bool(TRUE), status |-> Int_(503)])),
     McpReturn(Dict([ok |-> Bool(FALSE), status |-> Int_(200), code |-> Str(S("busy"))])),
     McpReturn(Dict([ok |-> Bool(FALSE), status |-> Int_(0)])),
     McpReturn(Dict([ok |-> Bool(FALSE)])),
     McpReturn(Dict([error |-> Dict([status |-> Int_(404)])])),
     McpReturn(Dict([error |-> Dict([message |-> Str(S("boom"))])])),
     McpReturn(Dict([ok |-> Bool(TRUE), status |-> Str(S("200"))])),
     McpReturn(Dict([status |-> Str(S("abc"))])),
     McpReturn(Str(S("text"))),
     McpRaise(create_parity_error(400, Str(S("busy")), Str(S("rejected")), NoneV, TRUE, 7,
                                  Ctx(NoneV, NoneV, "mcp", NoneV))),
     McpRaise(OtherError("TimeoutError", << >>))}

\* ------------------------------------------------- the event stream reader
\* stream_public_agent_cards and stream_session_events share the same loop.

\* str.rstrip("\r\n")
RECURSIVE RStripNewlines(_)
RStripNewlines(s) ==
    IF s # << >> /\ s[Len(s)] \in {"\r", "\n"}
    THEN RStripNewlines(SubSeq(s, 1, Len(s) - 1))
    ELSE s

\* str.partition(":"): the text before the first ":", whether there is one,
\* and the text after it
Partition(line) ==
    LET colons == {i \in 1..Len(line) : line[i] = ":"}
    IN IF colons = {} THEN [field |-> line, sep |-> FALSE, value |-> << >>]
       ELSE [field |-> SubSeq(line, 1, Min(colons) - 1), sep |-> TRUE,
             value |-> SubSeq(line, Min(colons) + 1, Len(line))]

\* "\n".join(lines)
RECURSIVE JoinLines(_)
JoinLines(lines) ==
    IF lines = << >> THEN << >>
    ELSE IF Len(lines) = 1 THEN lines[1]
    ELSE lines[1] \o << "\n" >> \o JoinLines(Tail(lines))

\* json.loads(text): the decoded value, or a failure.  A JSON document is one
\* token here, surrounded by optional white space.
JsonLoads(text) ==
    LET doc == Strip(text)
    IN IF Len(doc) # 1 THEN [ok |-> FALSE, value |-> NoneV]
       ELSE CASE doc[1] = "null" -> [ok |-> TRUE, value |-> NoneV]
              [] doc[1] = "7" -> [ok |-> TRUE, value |-> Int_(7)]
              [] doc[1] = "{x:1}" -> [ok |-> TRUE, value |-> Dict([x |-> Int_(1)])]
              [] OTHER -> [ok |-> FALSE, value |-> NoneV]

\* variant: null when the text is not JSON
decode_sse_dataM(raw_data) ==
    IF JsonLoads(raw_data).ok THEN JsonLoads(raw_data).value ELSE NoneV

\* _decode_sse_data
decode_sse_data(raw_data) ==
    IF raw_data = << "null" >> THEN NoneV
    ELSE IF JsonLoads(raw_data).ok THEN JsonLoads(raw_data).value
    ELSE Str(raw_data)

VARIABLES
    sse_pc,                 \* "reading", "last" (the line read had no newline:
                            \* the stream is at its end) or "ended"
    event_name,             \* the reader's locals ...
    event_id,
    data_lines,
    saw_comment_only_line,
    saw_field_line,
    yielded,                \* the events the generator has yielded, in order
    block,                  \* the lines read since the last boundary
    boundary,               \* the last boundary: its block, what had been yielded
                            \* before it and what it yielded
    nread,                  \* how many chunks readline() has returned
    pull_reads              \* how many times the pull of the generator that is
                            \* running, or that the last yield ended, has called
                            \* readline()

sseVars == << sse_pc, event_name, event_id, data_lines, saw_comment_only_line,
              saw_field_line, yielded, block, boundary, nread, pull_reads >>

NoBoundary == [n |-> 0, lines |-> << >>, before |-> << >>, yielded |-> << >>, at_end |-> FALSE]

\* the state when the response is opened
SseInit ==
    /\ sse_pc = "reading"
    /\ event_name = S("message")
    /\ event_id = None
    /\ data_lines = << >>
    /\ saw_comment_only_line = FALSE
    /\ saw_field_line = FALSE
    /\ yielded = << >>
    /\ block = << >>
    /\ boundary = NoBoundary
    /\ nread = 0
    /\ pull_reads = 0

\* emit_event: the event it returns (a sequence of none or one)
emit_event_out(name, id, lines, saw_comment, saw_field) ==
    IF Len(lines) = 0
    THEN IF saw_comment \/ ~saw_field THEN << >>
         ELSE << [event |-> name, id |-> id, rawData |-> << >>, data |-> NoneV] >>
    ELSE << [event |-> name, id |-> id, rawData |-> JoinLines(lines),
             data |-> decode_sse_data(JoinLines(lines))] >>

\* variant: the event is yielded twice
EmitEventTwice(at_end) ==
    LET out == emit_event_out(event_name, event_id, data_lines,
                              saw_comment_only_line, saw_field_line)
    IN /\ yielded' = yielded \o out \o out
       /\ boundary' = [n |-> boundary.n + 1, lines |-> block, before |-> yielded,
                       yielded |-> out, at_end |-> at_end]
       /\ event_name' = S("message")
       /\ event_id' = None
       /\ data_lines' = << >>
       /\ saw_comment_only_line' = FALSE
       /\ saw_field_line' = FALSE
       /\ block' = << >>

\* variant: emit_event without the reset of event_name
EmitEventKeepingName(at_end) ==
    LET out == emit_event_out(event_name, event_id, data_lines,
                              saw_comment_only_line, saw_field_line)
    IN /\ yielded' = yielded \o out
       /\ boundary' = [n |-> boundary.n + 1, lines |-> block, before |-> yielded,
                       yielded |-> out, at_end |-> at_end]
       /\ event_name' = event_name
       /\ event_id' = None
       /\ data_lines' = << >>
       /\ saw_comment_only_line' = FALSE
       /\ saw_field_line' = FALSE
       /\ block' = << >>

\* emit_event, with its reset of the locals, and the yield that follows it
EmitEvent(at_end) ==
    LET out == emit_event_out(event_name, event_id, data_lines,
                              saw_comment_only_line, saw_field_line)
    IN /\ yielded' = yielded \o out
       /\ boundary' = [n |-> boundary.n + 1, lines |-> block, before |-> yielded,
                       yielded |-> out, at_end |-> at_end]
       /\ event_name' = S("message")
       /\ event_id' = None
       /\ data_lines' = << >>
       /\ saw_comment_only_line' = FALSE
       /\ saw_field_line' = FALSE
       /\ block' = << >>

\* the generator is suspended at a yield: the line read last ended a block
\* and an event was yielded for it
Suspended == block = << >> /\ boundary.yielded # << >>

\* variant: a pull that reads one line
reads_of_pullM(suspended, reads) == 1

\* the calls of readline() of the running pull, the one being made included:
\* the consumer's next() resumes the generator after its yield, and the loop
\* calls readline() until the next yield
reads_of_pull(suspended, reads) == IF suspended THEN 1 ELSE reads + 1

\* One iteration of the while loop: readline() returns a non-empty chunk
ReadLine(chunk) ==
    LET line == RStripNewlines(chunk)
        parts == Partition(line)
        value == IF parts.sep
                 THEN IF parts.value # << >> /\ Head(parts.value) = " "
                      THEN Tail(parts.value) ELSE parts.value
                 ELSE << >>
    IN /\ sse_pc = "reading"
       /\ chunk # << >>
       /\ nread' = nread + 1
       /\ pull_reads' = reads_of_pull(Suspended, pull_reads)
       /\ sse_pc' = IF chunk[Len(chunk)] = "\n" THEN "reading" ELSE "last"
       /\ IF line = << >>
          THEN EmitEvent(FALSE)
          ELSE /\ block' = Append(block, line)
               /\ UNCHANGED << yielded, boundary >>
               /\ IF Head(line) = ":"
                  THEN /\ saw_comment_only_line' = TRUE
                       /\ UNCHANGED << event_name, event_id, data_lines, saw_field_line >>
                  ELSE /\ saw_field_line' = TRUE
                       /\ UNCHANGED saw_comment_only_line
                       /\ event_name' = IF parts.field = << "event" >>
                                        THEN Or(Strip(value), S("message"))
                                        ELSE event_name
                       /\ event_id' = IF parts.field = << "id" >>
                                      THEN Or(Strip(value), None)
                                      ELSE event_id
                       /\ data_lines' = IF parts.field = << "data" >>
                                        THEN Append(data_lines, value)
                                        ELSE data_lines

\* variant: the loop ends without the final emit_event
EndOfStreamWithoutFlush ==
    /\ sse_pc \in {"reading", "last"}
    /\ sse_pc' = "ended"
    /\ UNCHANGED << event_name, event_id, data_lines, saw_comment_only_line, saw_field_line,
                    yielded, block, boundary, nread, pull_reads >>

\* readline() returns b"": the loop ends and the last block is flushed
EndOfStream ==
    /\ sse_pc \in {"reading", "last"}
    /\ sse_pc' = "ended"
    /\ EmitEvent(TRUE)
    /\ pull_reads' = reads_of_pull(Suspended, pull_reads)
    /\ UNCHANGED nread

MaxChunks == 4

\* the chunks readline() returns
Chunks ==
    {<< "\n" >>,
     << ":", " ", "ping", "\n" >>,
     << "event", ":", " ", "foo", "\n" >>,
     << "event", ":", "\n" >>,
     << "id", ":", " ", "7", "\n" >>,
     << "id", ":", "\n" >>,
     << "data", ":", " ", "{x:1}", "\n" >>,
     << "data", ":", " ", " ", "x", "\r", "\n" >>,
     << "data", ":", " ", "null", "\n" >>,
     << "data", "\n" >>,
     << "data", ":", "7" >>,
     << "event", ":", " ", "bar", " ", "\n" >>}

\* ------------------------------------------------------ canonical JSON

\* Python values the canonical encoder meets beside those above: a dict in
\* its key-insertion order (a sequence of <<key, value>> pairs with distinct
\* text keys), a float (by the characters of its repr) and a tuple (a kind
\* JSON cannot encode)
ODict(pairs) == [t |-> "odict", v |-> pairs]
Float(repr) == [t |-> "float", v |-> repr]
Tuple(items) == [t |-> "tuple", v |-> items]

\* the order of the characters (code points) the model uses
CodePoints ==
    << " ", "\"", "+", ",", "-", ".", "0", "1", "2", "2026-01-01", "2026-01-01T00:00:00.000Z",
       "2026-02-02T10:00:00.000Z", "3", "4", "5", "6", "7", "8", "9", ":", "A", "B", "C", "D",
       "DisputeOpenEnvelope.v1", "E", "EUR", "F", "G", "H", "I", "J", "K", "L", "M", "N", "O",
       "P", "Q", "R", "S", "T", "ToolCallAgreement.v1", "ToolCallEvidence.v1",
       "ToolCallSettlementReceiptRef.v1", "U", "USD", "V", "W", "X", "Y", "Z", "[", "\\", "]",
       "_", "a", "abc", "acceptanceCriteria", "agent", "agreement", "agreementHash",
       "amountCents", "arb_case_tc_", "artifactId", "artifactType", "b", "c", "callId",
       "call_1", "call_2", "case", "caseId", "challengeWindowMs", "completedAt", "createdAt",
       "currency", "d", "dopen_tc_", "e", "env", "envelopeHash", "envelopeId", "evidence",
       "evidenceHash", "f", "g", "h", "hold", "holdHash", "holdbackBps", "i", "input",
       "inputHash", "k", "key", "l", "manifestHash", "metrics", "ms", "n", "n1", "nonce",
       "nonce_1", "nonce_2", "o", "openedAt", "openedByAgentId", "output", "outputHash",
       "outputRef", "p", "payee", "payeeAgentId", "payer", "payerAgentId", "r", "reasonCode",
       "receiptHash", "ref", "s", "schemaVersion", "settledAt", "settlementTerms", "sig",
       "signature", "signerKeyId", "startedAt", "t", "tenantId", "tenant_2", "tenant_default",
       "tool", "toolId", "u", "v", "x", "y", "yesterday", "{", "}" >>

CodePointOf ==
    [ch \in {CodePoints[i] : i \in 1..Len(CodePoints)} |->
        CHOOSE i \in 1..Len(CodePoints) : CodePoints[i] = ch]

CodePoint(ch) == IF ch \in DOMAIN CodePointOf THEN CodePointOf[ch] ELSE Len(CodePoints) + 1

\* a < b for two texts, as Python compares str
RECURSIVE TextLess(_, _)
TextLess(a, b) ==
    IF b = << >> THEN FALSE
    ELSE IF a = << >> THEN TRUE
    ELSE IF Head(a) = Head(b) THEN TextLess(Tail(a), Tail(b))
    ELSE CodePoint(Head(a)) < CodePoint(Head(b))

\* sorted(keys)
RECURSIVE Sorted(_)
Sorted(keys) ==
    IF keys = {} THEN << >>
    ELSE LET least == CHOOSE k \in keys : \A other \in keys \ {k} : TextLess(k, other)
         IN << least >> \o Sorted(keys \ {least})

\* value.keys() and value[key] of a dict
Keys(pairs) == {pairs[i][1] : i \in 1..Len(pairs)}
Lookup(pairs, key) == pairs[CHOOSE i \in 1..Len(pairs) : pairs[i][1] = key][2]

\* variant: the keys are taken in insertion order
ordered_keysUnsorted(pairs) == [i \in 1..Len(pairs) |-> pairs[i][1]]

\* sorted(value.keys())
ordered_keys(pairs) == Sorted(Keys(pairs))

\* variant: a key is kept only when its canonical value is not None
keeps_keyM(normalized, original) == normalized # NoneV

\* the test "normalized is not None or value[key] is None"
keeps_key(normalized, original) == normalized # NoneV \/ original = NoneV

\* the float tests of _canonicalize, on the repr of the float
NonFinite(repr) == repr \in {<< "n", "a", "n" >>, << "i", "n", "f" >>, << "-", "i", "n", "f" >>}
\* variant: no float is taken for a negative zero
NegativeZeroM(repr) == FALSE

IsZero(repr) == repr \in {<< "0", ".", "0" >>, << "-", "0", ".", "0" >>}
NegativeZero(repr) == IsZero(repr) /\ Head(repr) = "-"

CanonOk(value) == [ok |-> TRUE, value |-> value, error |-> ""]
CanonError(message) == [ok |-> FALSE, value |-> NoneV, error |-> message]

\* _canonicalize: the canonical value, or the ValueError it raises
RECURSIVE canonicalize(_)
canonicalize(value) ==
    CASE value.t \in {"none", "str", "bool", "int"} -> CanonOk(value)
      [] value.t = "float" ->
            IF NonFinite(value.v)
            THEN CanonError("Unsupported number for canonical JSON: non-finite")
            ELSE IF NegativeZero(value.v)
            THEN CanonError("Unsupported number for canonical JSON: -0")
            ELSE CanonOk(value)
      [] value.t = "list" ->
            LET items == [i \in 1..Len(value.v) |-> canonicalize(value.v[i])]
                failed == {i \in 1..Len(items) : ~items[i].ok}
            IN IF failed # {} THEN items[Min(failed)]
               ELSE CanonOk(List([i \in 1..Len(items) |-> items[i].value]))
      [] value.t = "odict" ->
            LET keys == ordered_keys(value.v)
                normalized == [i \in 1..Len(keys) |-> canonicalize(Lookup(value.v, keys[i]))]
                failed == {i \in 1..Len(keys) : ~normalized[i].ok}
                Kept(i) == keeps_key(normalized[i].value, Lookup(value.v, keys[i]))
                Pair(i) == << keys[i], normalized[i].value >>
                Out[i \in 0..Len(keys)] ==
                    IF i = 0 THEN << >>
                    ELSE IF Kept(i) THEN Append(Out[i - 1], Pair(i)) ELSE Out[i - 1]
            IN IF failed # {} THEN normalized[Min(failed)]
               ELSE CanonOk(ODict(Out[Len(keys)]))
      [] OTHER -> CanonError("Unsupported value for canonical JSON")

\* str(n) for an integer, one character per digit
RECURSIVE IntChars(_)
IntChars(n) ==
    IF n < 0 THEN << "-" >> \o IntChars(0 - n)
    ELSE IF n < 10 THEN << ToString(n) >>
    ELSE IntChars(n \div 10) \o << ToString(n % 10) >>

\* the body of a JSON string: quotes and backslashes are escaped
RECURSIVE JsonEscape(_)
JsonEscape(s) ==
    IF s = << >> THEN << >>
    ELSE IF Len(s) = 1
    THEN (IF s[1] \in {"\"", "\\"} THEN << "\\", s[1] >> ELSE s)
    ELSE JsonEscape(SubSeq(s, 1, Len(s) \div 2)) \o JsonEscape(SubSeq(s, (Len(s) \div 2) + 1, Len(s)))

JsonString(s) == << "\"" >> \o JsonEscape(s) \o << "\"" >>

\* json.dumps(value, separators=(",", ":"), ensure_ascii=False)
RECURSIVE JsonDumps(_)
JsonDumps(value) ==
    CASE value.t = "none" -> << "n", "u", "l", "l" >>
      [] value.t = "bool" -> IF value.v THEN << "t", "r", "u", "e" >>
                             ELSE << "f", "a", "l", "s", "e" >>
      [] value.t = "int" -> IntChars(value.v)
      [] value.t = "float" -> value.v
      [] value.t = "str" -> JsonString(value.v)
      [] value.t = "list" ->
            LET Items[i \in 0..Len(value.v)] ==
                    IF i = 0 THEN << >>
                    ELSE Items[i - 1] \o (IF i > 1 THEN << "," >> ELSE << >>)
                         \o JsonDumps(value.v[i])
            IN << "[" >> \o Items[Len(value.v)] \o << "]" >>
      [] value.t = "odict" ->
            LET Items[i \in 0..Len(value.v)] ==
                    IF i = 0 THEN << >>
                    ELSE Items[i - 1] \o (IF i > 1 THEN << "," >> ELSE << >>)
                         \o JsonString(value.v[i][1]) \o << ":" >> \o JsonDumps(value.v[i][2])
            IN << "{" >> \o Items[Len(value.v)] \o << "}" >>
      [] OTHER -> << "<TypeError>" >>

\* _canonical_json_dumps: the text, or the ValueError of _canonicalize
canonical_json_dumps(value) ==
    LET canonical == canonicalize(value)
    IN IF canonical.ok THEN [ok |-> TRUE, text |-> JsonDumps(canonical.value), error |-> ""]
       ELSE [ok |-> FALSE, text |-> None, error |-> canonical.error]

\* _sha256_hex_utf8.  SHA-256 is stood for by a 15-bit polynomial hash of the
\* text, written as 64 hex digits: a function of the text alone.
HashModulus == 32768

\* The hash of a text from the seed h is h * 31^n + c1 * 31^(n-1) + ... + cn.
\* PolyHash gives 31^n and the sum for text[lo..hi]; two halves are joined.
PolyJoin(left, right) ==
    [pow |-> (left.pow * right.pow) % HashModulus,
     sum |-> (left.sum * right.pow + right.sum) % HashModulus]

RECURSIVE PolyHash(_, _, _)
PolyHash(text, lo, hi) ==
    IF lo > hi THEN [pow |-> 1, sum |-> 0]
    ELSE IF lo = hi THEN [pow |-> 31, sum |-> CodePoint(text[lo])]
    ELSE PolyJoin(PolyHash(text, lo, (lo + hi) \div 2), PolyHash(text, ((lo + hi) \div 2) + 1, hi))

HashOf(poly, h) == (h * poly.pow + poly.sum) % HashModulus

HexDigitOf(n) ==
    << "0", "1", "2", "3", "4", "5", "6", "7", "8", "9", "a", "b", "c", "d", "e", "f" >>[n + 1]

sha256_hex_utf8(text) ==
    LET h == HashOf(PolyHash(text, 1, Len(text)), 7)
        quad == << HexDigitOf(h \div 4096), HexDigitOf((h \div 256) % 16),
                   HexDigitOf((h \div 16) % 16), HexDigitOf(h % 16) >>
    IN [i \in 1..Sha256HexLen |-> quad[((i - 1) % 4) + 1]]

\* two inputs hold the same data: they differ at most in the order their
\* mappings were built in
RECURSIVE SameData(_, _)
SameData(a, b) ==
    IF a.t # b.t THEN FALSE
    ELSE IF a.t = "odict"
    THEN /\ Len(a.v) = Len(b.v)
         /\ Keys(a.v) = Keys(b.v)
         /\ \A key \in Keys(a.v) : SameData(Lookup(a.v, key), Lookup(b.v, key))
    ELSE IF a.t \in {"list", "tuple"}
    THEN /\ Len(a.v) = Len(b.v)
         /\ \A i \in 1..Len(a.v) : SameData(a.v[i], b.v[i])
    ELSE a = b

VARIABLES
    canon_pc,     \* "off", "input", "rebuilt", "encoded" or "again"
    canon_a,      \* a value handed to the encoder
    canon_b,      \* the same data, built in a key order of its own
    canon_out     \* what the encoder made of them

canonVars == << canon_pc, canon_a, canon_b, canon_out >>

NoCanonOut == [a |-> NoneV, b |-> NoneV, again |-> NoneV]

\* no value is being encoded
CanonOff ==
    /\ canon_pc = "off"
    /\ canon_a = NoneV
    /\ canon_b = NoneV
    /\ canon_out = NoCanonOut

CanonInit(values) ==
    /\ canon_pc = "input"
    /\ canon_a \in values
    /\ canon_b = canon_a
    /\ canon_out = NoCanonOut

\* _canonicalize, _canonical_json_dumps and the digest of the encoding, as
\* create_agreement and the other artifact builders chain them
Encoded(value) ==
    LET json == canonical_json_dumps(value)
    IN [canonical |-> canonicalize(value),
        json |-> json,
        digest |-> IF json.ok THEN sha256_hex_utf8(json.text) ELSE None]

\* the caller builds the same data a second time, inserting keys in some order
CanonRebuild(b) ==
    /\ canon_pc = "input"
    /\ SameData(canon_a, b)
    /\ canon_b' = b
    /\ canon_pc' = "rebuilt"
    /\ UNCHANGED << canon_a, canon_out >>

\* both values are canonicalized, encoded and digested
CanonEncode ==
    /\ canon_pc \in {"input", "rebuilt"}
    /\ canon_out' = [canon_out EXCEPT !.a = Encoded(canon_a), !.b = Encoded(canon_b)]
    /\ canon_pc' = "encoded"
    /\ UNCHANGED << canon_a, canon_b >>

\* the canonical value is canonicalized again
CanonAgain ==
    /\ canon_pc = "encoded"
    /\ canon_out.a.canonical.ok
    /\ canon_out' = [canon_out EXCEPT !.again = canonicalize(canon_out.a.canonical.value)]
    /\ canon_pc' = "again"
    /\ UNCHANGED << canon_a, canon_b >>

MaxKeys == 2
MaxItems == 2

CanonKeys == {<< "b" >>, << "a" >>, << "a", "b" >>}

\* the sequences of at most n distinct keys
KeySeqs(keys, n) ==
    {ks \in UNION {[1..m -> keys] : m \in 0..n} :
        \A i, j \in 1..Len(ks) : i # j => ks[i] # ks[j]}

DictsOver(keys, n, values) ==
    UNION {{ODict([i \in 1..Len(ks) |-> << ks[i], f[i] >>]) : f \in [1..Len(ks) -> values]} :
              ks \in KeySeqs(keys, n)}

ListsOver(n, values) == {List(q) : q \in UNION {[1..m -> values] : m \in 0..n}}

CanonLeaves ==
    {NoneV, Str(S("x")), Str(<< "\"" >>), Int_(1), Int_(-12), Bool(TRUE),
     Float(<< "1", ".", "5" >>), Float(<< "0", ".", "0" >>), Float(<< "-", "0", ".", "0" >>),
     Float(<< "n", "a", "n" >>), Float(<< "i", "n", "f" >>), Float(<< "-", "i", "n", "f" >>),
     Tuple(<< >>)}

CanonInner ==
    DictsOver({<< "b" >>, << "a" >>}, 2, {Int_(1), NoneV})
    \cup {List(<< Float(<< "i", "n", "f" >>) >>),
          ODict(<< << << "a" >>, Float(<< "-", "0", ".", "0" >>) >> >>)}

CanonValues ==
    CanonLeaves
    \cup DictsOver(CanonKeys, MaxKeys, {NoneV, Int_(1), Int_(2), Float(<< "-", "0", ".", "0" >>)})
    \cup ListsOver(MaxItems, {NoneV, Int_(1), Float(<< "n", "a", "n" >>), Tuple(<< >>)})
    \cup DictsOver({<< "b" >>, << "a" >>}, 2, CanonInner)
    \cup ListsOver(1, CanonInner)

\* ---------------------------------------------------- artifact builders

\* dict.get(key) and dict.get(key, default) on a dict kept in insertion order
OGetOr(pairs, key, default) == IF S(key) \in Keys(pairs) THEN Lookup(pairs, S(key)) ELSE default
OGet(pairs, key) == OGetOr(pairs, key, NoneV)

\* a dict literal: the entries in the order written
Lit(pairs) == ODict([i \in 1..Len(pairs) |-> << S(pairs[i][1]), pairs[i][2] >>])

\* _assert_non_empty_string: the value, or a ValueError
assert_non_empty_string(value) ==
    IF value.t # "str" \/ Strip(value.v) = << >> THEN [ok |-> FALSE, value |-> None]
    ELSE [ok |-> TRUE, value |-> value.v]

ReasonCodeChars ==
    {"A", "B", "C", "D", "E", "F", "G", "H", "I", "J", "K", "L", "M", "N", "O", "P", "Q", "R",
     "S", "T", "U", "V", "W", "X", "Y", "Z", "0", "1", "2", "3", "4", "5", "6", "7", "8", "9", "_"}

ReasonCodeMinLen == 2
ReasonCodeMaxLen == 64

\* variant: the trimmed code as it was given, whatever its characters
assert_reason_codeM(value) ==
    IF ~assert_non_empty_string(value).ok THEN [ok |-> FALSE, value |-> None]
    ELSE [ok |-> TRUE, value |-> Strip(value.v)]

\* _assert_reason_code
assert_reason_code(value) ==
    LET raw == Upper(Strip(value.v))
    IN IF ~assert_non_empty_string(value).ok THEN [ok |-> FALSE, value |-> None]
       ELSE IF Len(raw) < ReasonCodeMinLen \/ Len(raw) > ReasonCodeMaxLen
               \/ \E i \in 1..Len(raw) : raw[i] \notin ReasonCodeChars
       THEN [ok |-> FALSE, value |-> None]
       ELSE [ok |-> TRUE, value |-> raw]

\* the timestamps in the form isoformat(timespec="milliseconds") gives, "Z" for UTC
IsoStamps == {S("2026-01-01T00:00:00.000Z"), S("2026-02-02T10:00:00.000Z")}

\* _normalize_iso_date: the normalized timestamp, or a ValueError.  now is the
\* clock's reading.  A timestamp is one token: fromisoformat reads a timestamp
\* in the normal form as itself and a date as its midnight in UTC.
normalize_iso_date(value, fallback_now, now) ==
    LET raw == Strip(value.v)
    IN IF value.t = "str" /\ raw # << >>
       THEN CASE raw \in IsoStamps -> [ok |-> TRUE, value |-> raw]
              [] raw = S("2026-01-01") -> [ok |-> TRUE, value |-> S("2026-01-01T00:00:00.000Z")]
              [] OTHER -> [ok |-> FALSE, value |-> None]
       ELSE IF fallback_now THEN [ok |-> TRUE, value |-> now]
       ELSE [ok |-> FALSE, value |-> None]

BuildError(message) == [ok |-> FALSE, error |-> message]

\* variant: the digest returned is that of the finished artifact
BuiltM(artifact, hash, data_hash, canonical_json) ==
    [ok |-> TRUE, error |-> "", artifact |-> artifact, hash |-> sha256_hex_utf8(canonical_json),
     data_hash |-> data_hash, canonicalJson |-> canonical_json]

\* The dict a builder returns: the artifact, its hash (agreementHash,
\* evidenceHash, envelopeHash), the hash of the input or output, canonicalJson
Built(artifact, hash, data_hash, canonical_json) ==
    [ok |-> TRUE, error |-> "", artifact |-> artifact, hash |-> hash, data_hash |-> data_hash,
     canonicalJson |-> canonical_json]

\* {**core, key: value, ...}
With(core, pairs) == ODict(core.v \o Lit(pairs).v)

\* NooterraClient.create_agreement
create_agreement(params, now) ==
    LET p == params.v
        tool_id == assert_non_empty_string(OGet(p, "toolId"))
        call_id == assert_non_empty_string(OGet(p, "callId"))
        manifest_hash == assert_sha256_hex(OGet(p, "manifestHash"))
        created_at == normalize_iso_date(OGet(p, "createdAt"), TRUE, now)
        input_canonical == canonical_json_dumps(OGetOr(p, "input", ODict(<< >>)))
        input_hash == sha256_hex_utf8(input_canonical.text)
        agreement_core ==
            canonicalize(Lit(<<
                << "schemaVersion", Str(S("ToolCallAgreement.v1")) >>,
                << "toolId", Str(tool_id.value) >>,
                << "manifestHash", Str(manifest_hash.raw) >>,
                << "callId", Str(call_id.value) >>,
                << "inputHash", Str(input_hash) >>,
                << "acceptanceCriteria", OGet(p, "acceptanceCriteria") >>,
                << "settlementTerms", OGet(p, "settlementTerms") >>,
                << "payerAgentId", V(as_non_empty_string_or_none(OGet(p, "payerAgentId"))) >>,
                << "payeeAgentId", V(as_non_empty_string_or_none(OGet(p, "payeeAgentId"))) >>,
                << "createdAt", Str(created_at.value) >> >>))
        agreement_hash == sha256_hex_utf8(canonical_json_dumps(agreement_core.value).text)
        agreement ==
            canonicalize(With(agreement_core.value, << << "agreementHash", Str(agreement_hash) >> >>))
    IN IF params.t # "odict" THEN BuildError("params must be an object")
       ELSE IF ~tool_id.ok THEN BuildError("params.toolId must be a non-empty string")
       ELSE IF ~call_id.ok THEN BuildError("params.callId must be a non-empty string")
       ELSE IF ~manifest_hash.ok THEN BuildError("params.manifestHash must be sha256 hex")
       ELSE IF ~created_at.ok THEN BuildError("params.createdAt must be an ISO date string")
       ELSE IF ~input_canonical.ok THEN BuildError(input_canonical.error)
       ELSE IF ~agreement_core.ok THEN BuildError(agreement_core.error)
       ELSE Built(agreement.value, agreement_hash, input_hash,
                  canonical_json_dumps(agreement.value).text)

\* the dict params carries under key, or {}
DictAt(p, key) == IF OGet(p, key).t = "odict" THEN OGet(p, key).v ELSE << >>

\* variant: the agreement's manifestHash is taken, whatever the key
from_agreementM(p, key) == OGetOr(p, key, OGet(DictAt(p, "agreement"), "manifestHash"))

\* params.get(key, agreement.get(key)), agreement being params' agreement or {}
from_agreement(p, key) == OGetOr(p, key, OGet(DictAt(p, "agreement"), key))

\* NooterraClient.sign_evidence
sign_evidence(params, now) ==
    LET p == params.v
        agreement_hash == assert_sha256_hex(from_agreement(p, "agreementHash"))
        call_id == assert_non_empty_string(from_agreement(p, "callId"))
        input_hash == assert_sha256_hex(from_agreement(p, "inputHash"))
        started_at == normalize_iso_date(OGet(p, "startedAt"), TRUE, now)
        completed_at ==
            normalize_iso_date(OGetOr(p, "completedAt", Str(started_at.value)), TRUE, now)
        created_at ==
            normalize_iso_date(OGetOr(p, "createdAt", Str(completed_at.value)), TRUE, now)
        output_canonical == canonical_json_dumps(OGetOr(p, "output", ODict(<< >>)))
        output_hash == sha256_hex_utf8(output_canonical.text)
        evidence_core ==
            canonicalize(Lit(<<
                << "schemaVersion", Str(S("ToolCallEvidence.v1")) >>,
                << "agreementHash", Str(agreement_hash.raw) >>,
                << "callId", Str(call_id.value) >>,
                << "inputHash", Str(input_hash.raw) >>,
                << "outputHash", Str(output_hash) >>,
                << "outputRef", V(as_non_empty_string_or_none(OGet(p, "outputRef"))) >>,
                << "metrics", OGet(p, "metrics") >>,
                << "startedAt", Str(started_at.value) >>,
                << "completedAt", Str(completed_at.value) >>,
                << "createdAt", Str(created_at.value) >> >>))
        evidence_hash == sha256_hex_utf8(canonical_json_dumps(evidence_core.value).text)
        evidence ==
            canonicalize(With(evidence_core.value, << << "evidenceHash", Str(evidence_hash) >> >>))
    IN IF params.t # "odict" THEN BuildError("params must be an object")
       ELSE IF ~agreement_hash.ok THEN BuildError("agreementHash must be sha256 hex")
       ELSE IF ~call_id.ok THEN BuildError("callId must be a non-empty string")
       ELSE IF ~input_hash.ok THEN BuildError("inputHash must be sha256 hex")
       ELSE IF ~started_at.ok THEN BuildError("startedAt must be an ISO date string")
       ELSE IF ~completed_at.ok THEN BuildError("completedAt must be an ISO date string")
       ELSE IF ~output_canonical.ok THEN BuildError(output_canonical.error)
       ELSE IF ~created_at.ok THEN BuildError("createdAt must be an ISO date string")
       ELSE IF ~evidence_core.ok THEN BuildError(evidence_core.error)
       ELSE Built(evidence.value, evidence_hash, output_hash,
                  canonical_json_dumps(evidence.value).text)

\* a or b, for values, on Python truthiness
OrValue(a, b) == IF Truthy(a) THEN a ELSE b

DefaultReasonCode ==
    << "T", "O", "O", "L", "_", "C", "A", "L", "L", "_", "D", "I", "S", "P", "U", "T", "E" >>

\* NooterraClient.build_dispute_open_envelope: tenant_id is self.tenant_id,
\* fresh_nonce the text f"nonce_{uuid.uuid4().hex[:16]}" would give
build_dispute_open_envelope(params, tenant_id, fresh_nonce, now) ==
    LET p == params.v
        agreement_hash == assert_sha256_hex(OGet(p, "agreementHash"))
        receipt_hash == assert_sha256_hex(OGet(p, "receiptHash"))
        hold_hash == assert_sha256_hex(OGet(p, "holdHash"))
        opened_by_agent_id == assert_non_empty_string(OGet(p, "openedByAgentId"))
        signer_key_id == assert_non_empty_string(OGet(p, "signerKeyId"))
        signature == assert_non_empty_string(OGet(p, "signature"))
        case_id ==
            Str(Or(as_non_empty_string_or_none(OGet(p, "caseId")), S("arb_case_tc_") \o agreement_hash.raw))
        envelope_id ==
            Str(Or(as_non_empty_string_or_none(OGet(p, "envelopeId")), S("dopen_tc_") \o agreement_hash.raw))
        tenant == Str(Or(as_non_empty_string_or_none(OGet(p, "tenantId")), tenant_id))
        opened_at == normalize_iso_date(OGet(p, "openedAt"), TRUE, now)
        reason_code == assert_reason_code(OrValue(OGet(p, "reasonCode"), Str(DefaultReasonCode)))
        nonce == Str(Or(as_non_empty_string_or_none(OGet(p, "nonce")), fresh_nonce))
        core ==
            canonicalize(Lit(<<
                << "schemaVersion", Str(S("DisputeOpenEnvelope.v1")) >>,
                << "artifactType", Str(S("DisputeOpenEnvelope.v1")) >>,
                << "artifactId", envelope_id >>,
                << "envelopeId", envelope_id >>,
                << "caseId", case_id >>,
                << "tenantId", tenant >>,
                << "agreementHash", Str(agreement_hash.raw) >>,
                << "receiptHash", Str(receipt_hash.raw) >>,
                << "holdHash", Str(hold_hash.raw) >>,
                << "openedByAgentId", Str(opened_by_agent_id.value) >>,
                << "openedAt", Str(opened_at.value) >>,
                << "reasonCode", Str(reason_code.value) >>,
                << "nonce", nonce >>,
                << "signerKeyId", Str(signer_key_id.value) >> >>))
        envelope_hash == sha256_hex_utf8(canonical_json_dumps(core.value).text)
        dispute_open_envelope ==
            canonicalize(With(core.value, << << "envelopeHash", Str(envelope_hash) >>,
                                            << "signature", Str(signature.value) >> >>))
    IN IF params.t # "odict" THEN BuildError("params must be an object")
       ELSE IF ~agreement_hash.ok THEN BuildError("agreementHash must be sha256 hex")
       ELSE IF ~receipt_hash.ok THEN BuildError("receiptHash must be sha256 hex")
       ELSE IF ~hold_hash.ok THEN BuildError("holdHash must be sha256 hex")
       ELSE IF ~opened_by_agent_id.ok THEN BuildError("openedByAgentId must be a non-empty string")
       ELSE IF ~signer_key_id.ok THEN BuildError("signerKeyId must be a non-empty string")
       ELSE IF ~signature.ok THEN BuildError("signature must be a non-empty string")
       ELSE IF ~opened_at.ok THEN BuildError("openedAt must be an ISO date string")
       ELSE IF ~reason_code.ok THEN BuildError("reasonCode must match ^[A-Z0-9_]{2,64}$")
       ELSE Built(dispute_open_envelope.value, envelope_hash, None,
                  canonical_json_dumps(dispute_open_envelope.value).text)

\* What open_dispute comes to: the exception it raised or the response, the
\* requests the transport was given, and what building the envelope came to
\* when open_dispute built it
NotBuilt == BuildError("not built")
DisputeRaised(exc, message, built) ==
    [ok |-> FALSE, exc |-> exc, error |-> message, requests |-> << >>, built |-> built]

\* tool_call_open_arbitration and _request: the one POST, answered with status;
\* a status of 400 or more is raised as NooterraApiError
tool_call_open_arbitration(body, status, built) ==
    [ok |-> status < 400,
     exc |-> IF status < 400 THEN "" ELSE "NooterraApiError",
     error |-> IF status < 400 THEN "" ELSE "request failed",
     requests |-> << [method |-> "POST", path |-> "/tool-calls/arbitration/open", body |-> body] >>,
     built |-> built]

\* the entries of a body that are there only when their value is not None
Present(pairs) ==
    LET Out[i \in 0..Len(pairs)] ==
            IF i = 0 THEN << >>
            ELSE IF pairs[i][2] # NoneV THEN Append(Out[i - 1], pairs[i]) ELSE Out[i - 1]
    IN Out[Len(pairs)]

\* the one element of a set of one
Only(set) == CHOOSE x \in set : TRUE

\* NooterraClient.open_dispute
open_dispute(params, tenant_id, fresh_nonce, now, status) ==
    LET p == params.v
        agreement_hash == assert_sha256_hex(OGet(p, "agreementHash"))
        receipt_hash == assert_sha256_hex(OGet(p, "receiptHash"))
        hold_hash == assert_sha256_hex(OGet(p, "holdHash"))
        arbiter_agent_id == assert_non_empty_string(OGet(p, "arbiterAgentId"))
        summary == assert_non_empty_string(OGet(p, "summary"))
        evidence_refs ==
            IF OGet(p, "evidenceRefs").t = "list" THEN OGet(p, "evidenceRefs").v ELSE << >>
        admin_override ==
            IF OGet(p, "adminOverride").t = "odict" THEN OGet(p, "adminOverride") ELSE NoneV
        override_enabled ==
            IF admin_override # NoneV THEN Truthy(OGet(admin_override.v, "enabled")) ELSE FALSE
        given_envelope ==
            IF OGet(p, "disputeOpenEnvelope").t = "odict" THEN OGet(p, "disputeOpenEnvelope")
            ELSE NoneV
        own_agent_id == as_non_empty_string_or_none(OGet(p, "openedByAgentId"))
        opened_by_agent_id ==
            IF own_agent_id = None /\ given_envelope # NoneV
            THEN as_non_empty_string_or_none(OGet(given_envelope.v, "openedByAgentId"))
            ELSE own_agent_id
        builds == given_envelope = NoneV /\ ~override_enabled
        envelope_params ==
            Lit(<< << "agreementHash", Str(agreement_hash.raw) >>,
                   << "receiptHash", Str(receipt_hash.raw) >>,
                   << "holdHash", Str(hold_hash.raw) >>,
                   << "openedByAgentId", V(opened_by_agent_id) >>,
                   << "signerKeyId", OGet(p, "signerKeyId") >>,
                   << "signature", OGet(p, "signature") >>,
                   << "caseId", OGet(p, "caseId") >>,
                   << "envelopeId", OGet(p, "envelopeId") >>,
                   << "reasonCode", OGet(p, "reasonCode") >>,
                   << "nonce", OGet(p, "nonce") >>,
                   << "openedAt", OGet(p, "openedAt") >>,
                   << "tenantId", OGet(p, "tenantId") >> >>)
        body(dispute_open_envelope) ==
            ODict(Lit(<< << "agreementHash", Str(agreement_hash.raw) >>,
                         << "receiptHash", Str(receipt_hash.raw) >>,
                         << "holdHash", Str(hold_hash.raw) >>,
                         << "arbiterAgentId", Str(arbiter_agent_id.value) >>,
                         << "summary", Str(summary.value) >>,
                         << "evidenceRefs",
                            List([i \in 1..Len(evidence_refs) |-> Str(StrOf(evidence_refs[i]))]) >> >>).v
                  \o Present(Lit(<< << "openedByAgentId", V(opened_by_agent_id) >>,
                                    << "disputeOpenEnvelope", dispute_open_envelope >>,
                                    << "adminOverride", admin_override >> >>).v))
    IN IF params.t # "odict" THEN DisputeRaised("ValueError", "params must be an object", NotBuilt)
       ELSE IF ~agreement_hash.ok
       THEN DisputeRaised("ValueError", "agreementHash must be sha256 hex", NotBuilt)
       ELSE IF ~receipt_hash.ok
       THEN DisputeRaised("ValueError", "receiptHash must be sha256 hex", NotBuilt)
       ELSE IF ~hold_hash.ok THEN DisputeRaised("ValueError", "holdHash must be sha256 hex", NotBuilt)
       ELSE IF ~arbiter_agent_id.ok
       THEN DisputeRaised("ValueError", "arbiterAgentId must be a non-empty string", NotBuilt)
       ELSE IF ~summary.ok
       THEN DisputeRaised("ValueError", "summary must be a non-empty string", NotBuilt)
       ELSE IF ~builds THEN tool_call_open_arbitration(body(given_envelope), status, NotBuilt)
       ELSE IF opened_by_agent_id = None
       THEN DisputeRaised("ValueError",
                          "openedByAgentId is required when disputeOpenEnvelope is not provided",
                          NotBuilt)
       \* build_dispute_open_envelope is called once, with the dict built here
       ELSE Only({IF ~built.ok THEN DisputeRaised("ValueError", built.error, built)
                  ELSE tool_call_open_arbitration(body(built.artifact), status, built) :
                     built \in {build_dispute_open_envelope(given, tenant_id, fresh_nonce, now) :
                                   given \in {envelope_params}}})

\* ------------------------------------------------------ hold and settle

DecimalDigits == {"0", "1", "2", "3", "4", "5", "6", "7", "8", "9"}
DigitOf(ch) == CHOOSE d \in 0..9 : ToString(d) = ch

RECURSIVE DigitsValue(_)
DigitsValue(s) ==
    IF s = << >> THEN 0
    ELSE DigitsValue(SubSeq(s, 1, Len(s) - 1)) * 10 + DigitOf(s[Len(s)])

\* the text of a decimal number, sign first: its sign and the digits before "."
Signed(text) == text # << >> /\ Head(text) \in {"-", "+"}
Unsigned(text) == IF Signed(text) THEN Tail(text) ELSE text
Whole(text) ==
    LET body == Unsigned(text)
        dots == {i \in 1..Len(body) : body[i] = "."}
    IN IF dots = {} THEN body ELSE SubSeq(body, 1, Min(dots) - 1)
Negated(text, n) == IF text # << >> /\ Head(text) = "-" THEN 0 - n ELSE n

\* int(value): the integer, or the exception int raises.  A float is
\* truncated towards zero.
PyInt(value) ==
    CASE value.t = "int" -> [ok |-> TRUE, value |-> value.v, exc |-> ""]
      [] value.t = "bool" -> [ok |-> TRUE, value |-> IF value.v THEN 1 ELSE 0, exc |-> ""]
      [] value.t = "float" ->
            IF NonFinite(value.v) THEN [ok |-> FALSE, value |-> 0, exc |-> "ValueError"]
            ELSE [ok |-> TRUE, value |-> Negated(value.v, DigitsValue(Whole(value.v))), exc |-> ""]
      [] value.t = "str" ->
            LET raw == Strip(value.v)
                body == Unsigned(raw)
            IN IF body # << >> /\ \A i \in 1..Len(body) : body[i] \in DecimalDigits
               THEN [ok |-> TRUE, value |-> Negated(raw, DigitsValue(body)), exc |-> ""]
               ELSE [ok |-> FALSE, value |-> 0, exc |-> "ValueError"]
      [] OTHER -> [ok |-> FALSE, value |-> 0, exc |-> "TypeError"]

\* isinstance(value, int): a bool is an int
IsInt(value) == value.t \in {"int", "bool"}
IntValue(value) == IF value.t = "bool" THEN (IF value.v THEN 1 ELSE 0) ELSE value.v

HoldbackBpsMax == 10000

\* What a hold call comes to: the exception it raised or its response, the
\* requests the transport was given, and what settle returns beside the response
HoldRaised(exc, message) ==
    [ok |-> FALSE, exc |-> exc, error |-> message, requests |-> << >>, receiptHash |-> None,
     settled |-> NoneV]

\* the POST of a hold
HoldRequest(body) == [method |-> "POST", path |-> "/ops/tool-calls/holds/lock", body |-> body]

\* a variant that sends the hold twice
ops_lock_tool_call_holdM(body, status) ==
    [ok |-> status < 400,
     exc |-> IF status < 400 THEN "" ELSE "NooterraApiError",
     error |-> IF status < 400 THEN "" ELSE "request failed",
     requests |-> << HoldRequest(body), HoldRequest(body) >>,
     receiptHash |-> Lookup(body.v, S("receiptHash")).v,
     settled |-> NoneV]

\* ops_lock_tool_call_hold and _request: the one POST, answered with status;
\* a status of 400 or more is raised as NooterraApiError
ops_lock_tool_call_hold(body, status) ==
    [ok |-> status < 400,
     exc |-> IF status < 400 THEN "" ELSE "NooterraApiError",
     error |-> IF status < 400 THEN "" ELSE "request failed",
     requests |-> << HoldRequest(body) >>,
     receiptHash |-> Lookup(body.v, S("receiptHash")).v,
     settled |-> NoneV]

\* NooterraClient.create_hold
create_hold(params, status) ==
    LET p == params.v
        agreement_hash == assert_sha256_hex(from_agreement(p, "agreementHash"))
        receipt_hash == assert_sha256_hex(OGet(p, "receiptHash"))
        payer_agent_id == assert_non_empty_string(OGet(p, "payerAgentId"))
        payee_agent_id == assert_non_empty_string(OGet(p, "payeeAgentId"))
        amount_cents == OGet(p, "amountCents")
        holdback_bps == PyInt(OGetOr(p, "holdbackBps", Int_(0)))
        challenge_window_ms == PyInt(OGetOr(p, "challengeWindowMs", Int_(0)))
    IN IF params.t # "odict" THEN HoldRaised("ValueError", "params must be an object")
       ELSE IF ~agreement_hash.ok THEN HoldRaised("ValueError", "agreementHash must be sha256 hex")
       ELSE IF ~receipt_hash.ok THEN HoldRaised("ValueError", "receiptHash must be sha256 hex")
       ELSE IF ~payer_agent_id.ok
       THEN HoldRaised("ValueError", "payerAgentId must be a non-empty string")
       ELSE IF ~payee_agent_id.ok
       THEN HoldRaised("ValueError", "payeeAgentId must be a non-empty string")
       ELSE IF payer_agent_id.value = payee_agent_id.value
       THEN HoldRaised("ValueError", "payerAgentId and payeeAgentId must differ")
       ELSE IF ~IsInt(amount_cents) \/ IntValue(amount_cents) <= 0
       THEN HoldRaised("ValueError", "amountCents must be a positive safe integer")
       ELSE IF ~holdback_bps.ok THEN HoldRaised(holdback_bps.exc, "int() failed")
       ELSE IF holdback_bps.value < 0 \/ holdback_bps.value > HoldbackBpsMax
       THEN HoldRaised("ValueError", "holdbackBps must be an integer within 0..10000")
       ELSE IF ~challenge_window_ms.ok THEN HoldRaised(challenge_window_ms.exc, "int() failed")
       ELSE IF challenge_window_ms.value < 0
       THEN HoldRaised("ValueError", "challengeWindowMs must be a non-negative safe integer")
       ELSE ops_lock_tool_call_hold(
                Lit(<< << "agreementHash", Str(agreement_hash.raw) >>,
                       << "receiptHash", Str(receipt_hash.raw) >>,
                       << "payerAgentId", Str(payer_agent_id.value) >>,
                       << "payeeAgentId", Str(payee_agent_id.value) >>,
                       << "amountCents", amount_cents >>,
                       << "currency",
                          Str(Or(as_non_empty_string_or_none(OGet(p, "currency")), S("USD"))) >>,
                       << "holdbackBps", Int_(holdback_bps.value) >>,
                       << "challengeWindowMs", Int_(challenge_window_ms.value) >> >>),
                status)

\* settle's return statement, reached when create_hold returned: the hashes and
\* the receipt reference beside the hold's response
settle_return(hold_response, agreement_hash, receipt_hash, receipt_ref) ==
    IF ~hold_response.ok THEN hold_response
    ELSE [hold_response EXCEPT !.settled =
             Lit(<< << "agreementHash", Str(agreement_hash) >>,
                    << "receiptHash", Str(receipt_hash) >>,
                    << "receiptRef", receipt_ref >> >>)]

\* NooterraClient.settle
settle(params, status, now) ==
    LET p == params.v
        evidence == DictAt(p, "evidence")
        agreement_hash == assert_sha256_hex(from_agreement(p, "agreementHash"))
        evidence_hash == OGetOr(p, "evidenceHash", OGet(evidence, "evidenceHash"))
        evidence_hash_norm ==
            IF Truthy(evidence_hash) THEN assert_sha256_hex(evidence_hash)
            ELSE [ok |-> TRUE, raw |-> None]
        amount_cents == OGet(p, "amountCents")
        currency == Str(Or(as_non_empty_string_or_none(OGet(p, "currency")), S("USD")))
        settled_at == normalize_iso_date(OGet(p, "settledAt"), TRUE, now)
        receipt_ref ==
            canonicalize(Lit(<<
                << "schemaVersion", Str(S("ToolCallSettlementReceiptRef.v1")) >>,
                << "agreementHash", Str(agreement_hash.raw) >>,
                << "evidenceHash", V(evidence_hash_norm.raw) >>,
                << "amountCents", amount_cents >>,
                << "currency", currency >>,
                << "settledAt", Str(settled_at.value) >> >>))
        given_receipt_hash == assert_sha256_hex(OGet(p, "receiptHash"))
        receipt_hash ==
            IF OGet(p, "receiptHash") # NoneV THEN given_receipt_hash.raw
            ELSE sha256_hex_utf8(canonical_json_dumps(receipt_ref.value).text)
    IN IF params.t # "odict" THEN HoldRaised("ValueError", "params must be an object")
       ELSE IF ~agreement_hash.ok THEN HoldRaised("ValueError", "agreementHash must be sha256 hex")
       ELSE IF ~evidence_hash_norm.ok
       THEN HoldRaised("ValueError", "evidenceHash must be sha256 hex")
       ELSE IF ~IsInt(amount_cents) \/ IntValue(amount_cents) <= 0
       THEN HoldRaised("ValueError", "amountCents must be a positive safe integer")
       ELSE IF ~settled_at.ok THEN HoldRaised("ValueError", "settledAt must be an ISO date string")
       ELSE IF OGet(p, "receiptHash") # NoneV /\ ~given_receipt_hash.ok
       THEN HoldRaised("ValueError", "receiptHash must be sha256 hex")
       ELSE settle_return(
                create_hold(
                    Lit(<< << "agreementHash", Str(agreement_hash.raw) >>,
                           << "receiptHash", Str(receipt_hash) >>,
                           << "payerAgentId", OGet(p, "payerAgentId") >>,
                           << "payeeAgentId", OGet(p, "payeeAgentId") >>,
                           << "amountCents", amount_cents >>,
                           << "currency", currency >>,
                           << "holdbackBps", OGetOr(p, "holdbackBps", Int_(0)) >>,
                           << "challengeWindowMs", OGetOr(p, "challengeWindowMs", Int_(0)) >> >>),
                    status),
                agreement_hash.raw, receipt_hash, receipt_ref.value)

\* ------------------------------------------- building a chain of artifacts

VARIABLES
    art_pc,          \* which builder runs next: "off" when no artifact is being built
    art_agreement,   \* create_agreement: its params and what it returned
    art_evidence,    \* sign_evidence: its params and what it returned
    art_hold,        \* create_hold or settle: its params and what it came to
    art_envelope,    \* build_dispute_open_envelope: its params and what it returned
    art_dispute      \* open_dispute: its params and what it came to

artVars == << art_pc, art_agreement, art_evidence, art_hold, art_envelope, art_dispute >>

NoCall == [op |-> "none", params |-> NoneV, out |-> BuildError("not called")]
Call(op, params, out) == [op |-> op, params |-> params, out |-> out]

ArtOff ==
    /\ art_pc = "off"
    /\ art_agreement = NoCall
    /\ art_evidence = NoCall
    /\ art_hold = NoCall
    /\ art_envelope = NoCall
    /\ art_dispute = NoCall

ArtInit ==
    /\ art_pc = "start"
    /\ art_agreement = NoCall
    /\ art_evidence = NoCall
    /\ art_hold = NoCall
    /\ art_envelope = NoCall
    /\ art_dispute = NoCall

\* params with key set to value: the entry is replaced in place, or appended
Put(params, key, value) ==
    IF S(key) \in Keys(params.v)
    THEN ODict([i \in 1..Len(params.v) |->
                   IF params.v[i][1] = S(key) THEN << S(key), value >> ELSE params.v[i]])
    ELSE ODict(Append(params.v, << S(key), value >>))

\* the clock's reading when a builder falls back on it
Now == S("2026-02-02T10:00:00.000Z")

\* the caller builds an agreement
CreateAgreement(params) ==
    /\ art_pc = "start"
    /\ art_agreement' = Call("create_agreement", params, create_agreement(params, Now))
    /\ art_pc' = "agreed"
    /\ UNCHANGED << art_evidence, art_hold, art_envelope, art_dispute >>

\* the caller hands the agreement it got to sign_evidence, with further params
SignEvidence(extra) ==
    /\ art_pc = "agreed"
    /\ art_agreement.out.ok
    /\ LET params == With(Lit(<< << "agreement", art_agreement.out.artifact >> >>), extra)
       IN art_evidence' = Call("sign_evidence", params, sign_evidence(params, Now))
    /\ art_pc' = "signed"
    /\ UNCHANGED << art_agreement, art_hold, art_envelope, art_dispute >>

\* the parameters of a hold for the agreement and evidence built so far
ArtifactOf(call) == IF call.out.ok THEN call.out.artifact ELSE NoneV

HoldBase ==
    Lit(<< << "agreement", ArtifactOf(art_agreement) >>,
           << "evidence", ArtifactOf(art_evidence) >>,
           << "payerAgentId", Str(S("payer")) >>,
           << "payeeAgentId", Str(S("payee")) >>,
           << "amountCents", Int_(5) >> >>)

\* the caller locks a hold, directly or through settle
CreateHold(params, status) ==
    /\ art_pc = "signed"
    /\ art_evidence.out.ok
    /\ art_hold' = Call("create_hold", params, create_hold(params, status))
    /\ art_pc' = "held"
    /\ UNCHANGED << art_agreement, art_evidence, art_envelope, art_dispute >>

Settle(params, status) ==
    /\ art_pc = "signed"
    /\ art_evidence.out.ok
    /\ art_hold' = Call("settle", params, settle(params, status, Now))
    /\ art_pc' = "held"
    /\ UNCHANGED << art_agreement, art_evidence, art_envelope, art_dispute >>

\* the caller builds the envelope that opens a dispute
BuildDisputeOpenEnvelope(params, tenant_id, fresh_nonce) ==
    /\ art_pc = "start"
    /\ art_envelope' =
           Call("build_dispute_open_envelope", params,
                build_dispute_open_envelope(params, tenant_id, fresh_nonce, Now))
    /\ art_pc' = "enveloped"
    /\ UNCHANGED << art_agreement, art_evidence, art_hold, art_dispute >>

\* the caller opens a dispute; the server answers the request with status
OpenDispute(params, tenant_id, fresh_nonce, status) ==
    /\ art_pc \in {"start", "enveloped"}
    /\ art_dispute' =
           Call("open_dispute", params, open_dispute(params, tenant_id, fresh_nonce, Now, status))
    /\ art_pc' = "disputed"
    /\ UNCHANGED << art_agreement, art_evidence, art_hold, art_envelope >>

\* the inputs
AgreementBase ==
    Lit(<< << "toolId", Str(S("tool")) >>,
           << "callId", Str(S("call_1")) >>,
           << "manifestHash", Str(Hash("a")) >> >>)

AgreementParams ==
    {AgreementBase,
     With(Lit(<< << "toolId", Str(S("tool")) >>,
                 << "callId", Str(<< " ", "call_1" >>) >>,
                 << "manifestHash", Str(<< " " >> \o Hash("A")) >> >>),
          << << "input", Lit(<< << "b", Int_(1) >>, << "a", NoneV >> >>) >>,
             << "createdAt", Str(S("2026-01-01")) >>,
             << "payerAgentId", Str(<< " " >>) >>,
             << "payeeAgentId", Str(<< "payee", " " >>) >> >>),
     With(AgreementBase,
          << << "settlementTerms", Lit(<< << "amountCents", Int_(5) >> >>) >>,
             << "acceptanceCriteria", NoneV >> >>),
     With(AgreementBase, << << "input", List(<< Float(<< "i", "n", "f" >>) >>) >> >>),
     With(AgreementBase, << << "createdAt", Str(S("yesterday")) >> >>),
     Put(AgreementBase, "toolId", Str(<< " " >>)),
     Put(AgreementBase, "manifestHash", Str(S("abc"))),
     Str(S("tool"))}

EvidenceExtras ==
    {<< >>,
     << << "output", Lit(<< << "b", Int_(1) >>, << "a", Int_(2) >> >>) >>,
        << "startedAt", Str(S("2026-01-01")) >>,
        << "outputRef", Str(S("ref")) >>,
        << "metrics", Lit(<< << "ms", Int_(12) >> >>) >> >>,
     << << "agreementHash", Str(Hash("c")) >> >>,
     << << "callId", Str(S("call_2")) >> >>,
     << << "inputHash", Str(Hash("d")) >> >>,
     << << "agreementHash", NoneV >> >>,
     << << "output", Float(<< "n", "a", "n" >>) >> >>,
     << << "completedAt", Str(S("yesterday")) >> >>}

HoldChanges ==
    {<< "payeeAgentId", Str(S("payee")) >>,
     << "payeeAgentId", Str(S("payer")) >>,
     << "payeeAgentId", Str(<< "payer", " " >>) >>,
     << "payeeAgentId", NoneV >>,
     << "amountCents", Int_(0) >>,
     << "amountCents", Int_(-3) >>,
     << "amountCents", Bool(TRUE) >>,
     << "amountCents", Float(<< "5", ".", "0" >>) >>,
     << "amountCents", Str(<< "5" >>) >>,
     << "amountCents", NoneV >>,
     << "holdbackBps", Int_(-1) >>,
     << "holdbackBps", Int_(10001) >>,
     << "holdbackBps", Int_(10000) >>,
     << "holdbackBps", Float(<< "-", "0", ".", "5" >>) >>,
     << "holdbackBps", Float(<< "1", "0", "0", "0", "0", ".", "5" >>) >>,
     << "holdbackBps", Str(<< "2", "5" >>) >>,
     << "holdbackBps", Str(S("abc")) >>,
     << "holdbackBps", NoneV >>,
     << "challengeWindowMs", Int_(-1) >>,
     << "challengeWindowMs", Int_(1000) >>,
     << "challengeWindowMs", Float(<< "-", "0", ".", "5" >>) >>,
     << "agreementHash", Str(S("abc")) >>,
     << "agreementHash", Str(<< " " >> \o Hash("A")) >>,
     << "receiptHash", Str(Hash("b")) >>,
     << "receiptHash", Str(S("abc")) >>,
     << "evidenceHash", Str(S("abc")) >>,
     << "currency", Str(S("EUR")) >>}

\* a hold's parameters: the base with one entry changed, with or without a
\* receipt hash of the caller's, or something that is no dict
HoldParams ==
    {Put(base, change[1], change[2]) :
        base \in {HoldBase, Put(HoldBase, "receiptHash", Str(Hash("b")))}, change \in HoldChanges}
    \cup {Str(S("hold"))}

HoldStatuses == {200, 409}

EnvelopeBase ==
    Lit(<< << "agreementHash", Str(Hash("a")) >>,
           << "receiptHash", Str(Hash("b")) >>,
           << "holdHash", Str(Hash("c")) >>,
           << "openedByAgentId", Str(S("agent")) >>,
           << "signerKeyId", Str(S("key")) >>,
           << "signature", Str(S("sig")) >> >>)

EnvelopeParams ==
    {EnvelopeBase,
     Put(EnvelopeBase, "reasonCode", Str(<< " ", "b", "a", "d", "_", "1", " " >>)),
     Put(EnvelopeBase, "reasonCode", Str(<< "a", "-", "b" >>)),
     Put(EnvelopeBase, "reasonCode", Str(<< "a" >>)),
     Put(EnvelopeBase, "reasonCode", Str(<< >>)),
     Put(EnvelopeBase, "reasonCode", Int_(7)),
     Put(Put(EnvelopeBase, "caseId", Str(S("case"))), "envelopeId", Str(<< " ", "env" >>)),
     Put(Put(EnvelopeBase, "nonce", Str(S("n1"))), "tenantId", Str(S("tenant_2"))),
     Put(EnvelopeBase, "openedAt", Str(S("2026-01-01"))),
     Put(EnvelopeBase, "openedAt", Str(S("yesterday"))),
     Put(EnvelopeBase, "agreementHash", Str(<< " " >> \o Hash("A"))),
     Put(EnvelopeBase, "holdHash", Str(S("abc"))),
     Put(EnvelopeBase, "receiptHash", NoneV),
     Put(EnvelopeBase, "signature", Str(<< " " >>)),
     Put(EnvelopeBase, "signerKeyId", NoneV),
     Put(EnvelopeBase, "openedByAgentId", Int_(1)),
     List(<< >>)}

\* the parameters of open_dispute: the hashes, the arbiter and a summary, with
\* or without what the envelope is built from
DisputeBase ==
    Put(Put(EnvelopeBase, "arbiterAgentId", Str(S("arbiter"))), "summary", Str(S("late")))

DisputeParams ==
    {DisputeBase,
     Put(DisputeBase, "openedByAgentId", NoneV),
     Put(DisputeBase, "openedByAgentId", Str(<< " " >>)),
     Put(DisputeBase, "signerKeyId", NoneV),
     Put(DisputeBase, "signature", Str(<< >>)),
     Put(DisputeBase, "reasonCode", Str(<< "a", "-", "b" >>)),
     Put(DisputeBase, "reasonCode", Str(<< " ", "b", "a", "d", "_", "1", " " >>)),
     Put(DisputeBase, "openedAt", Str(S("yesterday"))),
     Put(DisputeBase, "holdHash", Str(S("abc"))),
     Put(DisputeBase, "agreementHash", Str(<< " " >> \o Hash("A"))),
     Put(DisputeBase, "summary", NoneV),
     Put(DisputeBase, "evidenceRefs", List(<< Str(S("ref")) >>)),
     Put(Put(DisputeBase, "openedByAgentId", NoneV), "adminOverride",
         Lit(<< << "enabled", Bool(TRUE) >> >>)),
     Put(Put(DisputeBase, "openedByAgentId", NoneV), "adminOverride",
         Lit(<< << "enabled", Bool(FALSE) >> >>)),
     Put(Put(DisputeBase, "openedByAgentId", NoneV), "disputeOpenEnvelope",
         Lit(<< << "openedByAgentId", Str(S("agent_2")) >> >>)),
     Put(Put(DisputeBase, "signerKeyId", NoneV), "disputeOpenEnvelope",
         Lit(<< << "envelopeId", Str(S("env")) >> >>)),
     Str(S("dispute"))}

EnvelopeTenants == {S("tenant_default")}
EnvelopeNonces == {S("nonce_1"), S("nonce_2")}

\* ---------------------------------------------------- the run event chain

VARIABLES
    run_pc,           \* the step first_verified_run or first_paid_rfq is about to take
    run_flow,         \* which of the two runs, and its parameters
    run_id,           \* the local run_id
    prev_chain_hash,  \* the local prev_chain_hash
    run_log           \* the requests sent and the responses received, in order

runVars == << run_pc, run_flow, run_id, prev_chain_hash, run_log >>

\* a call: its flow, auto_complete, whether params holds a payer_agent, a
\* payer_credit and a settlement with an amount, the idempotency_prefix given
\* and the clock-and-random text of the fallback prefix
Flow(name, auto_complete, payer_agent, payer_credit, settlement, idempotency_prefix, stamp) ==
    [name |-> name, auto_complete |-> auto_complete, payer_agent |-> payer_agent,
     payer_credit |-> payer_credit, settlement |-> settlement,
     idempotency_prefix |-> idempotency_prefix, stamp |-> stamp]

RunOff ==
    /\ run_pc = "off"
    /\ run_flow = Flow("none", FALSE, FALSE, FALSE, FALSE, NoneV, "")
    /\ run_id = NoneV
    /\ prev_chain_hash = NoneV
    /\ run_log = << >>

IdempotencyPrefixes == {NoneV, Str(<< " ", "mine", " " >>), Str(<< " " >>)}

\* a call of first_verified_run or first_paid_rfq with valid agents, up to its
\* first request
RunInit ==
    /\ run_flow \in
           {Flow("first_verified_run", TRUE, payer_agent, payer_credit, settlement, prefix, "18f_0a1b2c") :
                payer_agent \in BOOLEAN, payer_credit \in BOOLEAN, settlement \in BOOLEAN,
                prefix \in IdempotencyPrefixes}
           \cup {Flow("first_paid_rfq", b, FALSE, FALSE, FALSE, prefix, "18f_0a1b2c") :
                     b \in BOOLEAN, prefix \in IdempotencyPrefixes}
    /\ run_pc = IF run_flow.name = "first_verified_run" THEN "register_payee" ELSE "register_poster"
    /\ run_id = NoneV
    /\ prev_chain_hash = NoneV
    /\ run_log = << >>

\* _normalize_prefix
normalize_prefix(value, fallback) ==
    IF value.t = "str" /\ Strip(value.v) # << >> THEN Strip(value.v) ELSE fallback

\* step_prefix = _normalize_prefix(idempotency_prefix, f"sdk_<flow>_{clock:x}_{random:06x}")
step_prefix(flow) ==
    normalize_prefix(flow.idempotency_prefix, << "sdk_", flow.name, "_", flow.stamp >>)

\* variant: every step is given the key of the run
make_step_optsM(prefix, step) == [idempotency_key |-> Str(prefix)]

\* make_step_opts(step): idempotency_key is f"{step_prefix}_{step}"
make_step_opts(prefix, step) == [idempotency_key |-> Str(prefix \o << "_", step >>)]

\* the name under which a step asks for its options
StepName(step) ==
    CASE step = "RUN_STARTED" -> "run_started"
      [] step = "EVIDENCE_ADDED" -> "evidence_added"
      [] step = "RUN_COMPLETED" -> "run_completed"
      [] OTHER -> step

\* the options of a step: first_paid_rfq reads the verification and the
\* settlement with idempotency_key=None
StepOpts(flow, step) ==
    IF flow.name = "first_paid_rfq" /\ step \in {"verification", "settlement"}
    THEN [make_step_opts(step_prefix(flow), StepName(step)) EXCEPT !.idempotency_key = NoneV]
    ELSE make_step_opts(step_prefix(flow), StepName(step))

\* _request: the x-idempotency-key header is sent when the key is truthy
Request(step, type, expected, opts) ==
    [kind |-> "request", step |-> step, type |-> type, expected |-> expected,
     key |-> IF Truthy(opts.idempotency_key) THEN opts.idempotency_key ELSE NoneV,
     run |-> NoneV, id |-> NoneV, settlement |-> FALSE]

\* a response: the run of its body, the id the flow reads from its body, and
\* whether its body holds a truthy settlement
Answer(step, run, id, settlement) ==
    [kind |-> "response", step |-> step, type |-> "", expected |-> NoneV, key |-> NoneV,
     run |-> run, id |-> id, settlement |-> settlement]

Response(step, run) == Answer(step, run, NoneV, FALSE)

\* response.get("body", {}).get("run", {}).get(key): run is the run of the
\* response's body, a dict or None
RunField(run, key) == IF run.t = "odict" THEN OGet(run.v, key) ELSE NoneV

\* variant: the hash the flow already holds is kept
next_prev_chain_hashM(held, run) == IF held # NoneV THEN held ELSE RunField(run, "lastChainHash")

\* prev_chain_hash = <response>.get("body", {}).get("run", {}).get("lastChainHash")
next_prev_chain_hash(held, run) == RunField(run, "lastChainHash")

\* a request whose answer the flow reads nothing from (a wallet credit, a read)
PlainStep(step, next, answered) ==
    /\ run_pc = step
    /\ run_log' = run_log \o << Request(step, "", NoneV, StepOpts(run_flow, step)) >>
                     \o (IF answered THEN << Response(step, NoneV) >> ELSE << >>)
    /\ run_pc' = IF answered THEN next ELSE "raised"
    /\ UNCHANGED << run_flow, run_id, prev_chain_hash >>

\* a request whose answer carries an id the flow goes on with (a registration,
\* the rfq, the bid): the id is checked with _assert_non_empty_string
IdStep(step, next, answered, id) ==
    /\ run_pc = step
    /\ run_log' = run_log \o << Request(step, "", NoneV, StepOpts(run_flow, step)) >>
                     \o (IF answered THEN << Answer(step, NoneV, id, FALSE) >> ELSE << >>)
    /\ run_pc' = IF answered /\ assert_non_empty_string(id).ok THEN next ELSE "raised"
    /\ UNCHANGED << run_flow, run_id, prev_chain_hash >>

\* create_agent_run in first_verified_run, accept_marketplace_bid in
\* first_paid_rfq: the answer carries the run, whose runId and lastChainHash
\* are checked before anything is appended
RunStep(step, next, answered, run, settlement) ==
    /\ run_pc = step
    /\ run_log' = run_log \o << Request(step, "", NoneV, StepOpts(run_flow, step)) >>
                     \o (IF answered THEN << Answer(step, run, NoneV, settlement) >> ELSE << >>)
    /\ run_id' = IF answered THEN RunField(run, "runId") ELSE run_id
    /\ prev_chain_hash' =
           IF answered /\ assert_non_empty_string(RunField(run, "runId")).ok
              /\ (run_flow.name = "first_verified_run" \/ run_flow.auto_complete)
           THEN next_prev_chain_hash(prev_chain_hash, run)
           ELSE prev_chain_hash
    /\ run_pc' =
           IF ~answered \/ ~assert_non_empty_string(RunField(run, "runId")).ok THEN "raised"
           ELSE IF run_flow.name = "first_paid_rfq" /\ ~run_flow.auto_complete THEN "verification"
           ELSE IF ~assert_non_empty_string(RunField(run, "lastChainHash")).ok THEN "raised"
           ELSE next
    /\ UNCHANGED run_flow

\* append_agent_run_event: its checks, then the one request
append_agent_run_event(agent_id, the_run_id, type, expected_prev_chain_hash, opts) ==
    IF /\ assert_non_empty_string(agent_id).ok
       /\ assert_non_empty_string(the_run_id).ok
       /\ assert_non_empty_string(expected_prev_chain_hash).ok
       /\ assert_non_empty_string(Str(S(type))).ok
    THEN [ok |-> TRUE, requests |-> << Request(type, type, expected_prev_chain_hash, opts) >>]
    ELSE [ok |-> FALSE, requests |-> << >>]

\* an append and what the flow does with the answer: first_verified_run reads
\* the next hash from the answers to RUN_STARTED and EVIDENCE_ADDED
AppendStep(type, next, reads_hash, answered, run, settlement) ==
    LET sent == append_agent_run_event(Str(S("agent_1")), run_id, type, prev_chain_hash,
                                       StepOpts(run_flow, type))
        got == sent.ok /\ answered
    IN /\ run_pc = type
       /\ run_log' = run_log \o sent.requests
                        \o (IF got THEN << Answer(type, run, NoneV, settlement) >> ELSE << >>)
       /\ prev_chain_hash' =
              IF got /\ reads_hash THEN next_prev_chain_hash(prev_chain_hash, run)
              ELSE prev_chain_hash
       /\ run_pc' =
              IF ~got THEN "raised"
              ELSE IF reads_hash /\ ~assert_non_empty_string(RunField(run, "lastChainHash")).ok
              THEN "raised"
              ELSE next
       /\ UNCHANGED << run_flow, run_id >>

\* the runs a server may answer with
ChainHashes ==
    {Str(S("h1")), Str(S("h2")), Str(<< " ", "h3" >>), Str(<< >>), Str(<< " " >>), NoneV, Int_(5)}

RunAnswers ==
    {Lit(<< << "runId", Str(S("run_1")) >>, << "lastChainHash", h >> >>) : h \in ChainHashes}
    \cup {Lit(<< << "lastChainHash", Str(S("h1")) >> >>), NoneV}

\* the ids a server may answer with
IdAnswers == {Str(S("id_1")), Str(<< " " >>), NoneV}

\* first_verified_run between its registrations and create_run: a settlement
\* needs a payer, a payer_credit needs a payer_agent_id and is then sent
after_registration(flow) ==
    IF flow.settlement /\ ~flow.payer_agent THEN "raised"
    ELSE IF flow.payer_credit THEN (IF flow.payer_agent THEN "credit_payer_wallet" ELSE "raised")
    ELSE "create_run"

\* run_body.get("settlement") or run_created.get("body", {}).get("settlement")
\* or run_completed.get("body", {}).get("settlement")
settlement_due(flow, log) ==
    \/ flow.settlement
    \/ \E i \in 1..Len(log) :
          log[i].kind = "response" /\ log[i].step \in {"create_run", "RUN_COMPLETED"} /\ log[i].settlement

FirstVerifiedRun ==
    /\ run_flow.name = "first_verified_run"
    /\ \/ \E answered \in BOOLEAN, id \in IdAnswers :
             IdStep("register_payee",
                    IF run_flow.payer_agent THEN "register_payer" ELSE after_registration(run_flow),
                    answered, id)
       \/ \E answered \in BOOLEAN, id \in IdAnswers :
             IdStep("register_payer", after_registration(run_flow), answered, id)
       \/ \E answered \in BOOLEAN : PlainStep("credit_payer_wallet", "create_run", answered)
       \/ \E answered, settlement \in BOOLEAN, run \in RunAnswers :
             RunStep("create_run", "RUN_STARTED", answered, run, settlement)
       \/ \E answered \in BOOLEAN, run \in RunAnswers :
             AppendStep("RUN_STARTED", "EVIDENCE_ADDED", TRUE, answered, run, FALSE)
       \/ \E answered \in BOOLEAN, run \in RunAnswers :
             AppendStep("EVIDENCE_ADDED", "RUN_COMPLETED", TRUE, answered, run, FALSE)
       \/ \E answered, settlement \in BOOLEAN, run \in RunAnswers :
             AppendStep("RUN_COMPLETED", "get_run", FALSE, answered, run, settlement)
       \/ \E answered \in BOOLEAN : PlainStep("get_run", "get_verification", answered)
       \/ \E answered \in BOOLEAN :
             PlainStep("get_verification",
                       IF settlement_due(run_flow, run_log) THEN "get_settlement" ELSE "done",
                       answered)
       \/ \E answered \in BOOLEAN : PlainStep("get_settlement", "done", answered)

FirstPaidRfq ==
    /\ run_flow.name = "first_paid_rfq"
    /\ \/ \E answered \in BOOLEAN, id \in IdAnswers :
             IdStep("register_poster", "register_bidder", answered, id)
       \/ \E answered \in BOOLEAN, id \in IdAnswers :
             IdStep("register_bidder", "create_rfq", answered, id)
       \/ \E answered \in BOOLEAN, id \in IdAnswers : IdStep("create_rfq", "submit_bid", answered, id)
       \/ \E answered \in BOOLEAN, id \in IdAnswers : IdStep("submit_bid", "accept_bid", answered, id)
       \/ \E answered \in BOOLEAN, run \in RunAnswers :
             RunStep("accept_bid", "RUN_COMPLETED", answered, run, FALSE)
       \/ \E answered \in BOOLEAN, run \in RunAnswers :
             AppendStep("RUN_COMPLETED", "verification", FALSE, answered, run, FALSE)
       \/ \E answered \in BOOLEAN : PlainStep("verification", "settlement", answered)
       \/ \E answered \in BOOLEAN : PlainStep("settlement", "done", answered)

\* ------------------------------------------------- the specification

vars == << invokeVars, sseVars, canonVars, artVars, runVars >>

\* what the steps of one part of the client leave alone
besideInvoke == << sseVars, canonVars, artVars, runVars >>
besideSse == << invokeVars, canonVars, artVars, runVars >>
besideCanon == << invokeVars, sseVars, artVars, runVars >>
besideArt == << invokeVars, sseVars, canonVars, runVars >>
besideRun == << invokeVars, sseVars, canonVars, artVars >>

Calls == {"call"}

\* the parity adapter: one invoke call on each adapter
Init ==
    /\ InvokeInit(RetryAdapters, Calls)
    /\ SseInit
    /\ CanonOff
    /\ ArtOff
    /\ RunOff

\* the steps of invoke, for arguments and answers drawn from the given sets
InvokeNext(operations, payloads, request_ids, keys, prev_hashes, http_answers, mcp_answers) ==
    \/ /\ \E c \in DOMAIN pc, o \in operations, p \in payloads, r \in request_ids,
             k \in keys, h \in prev_hashes, fresh \in FreshIds :
             InvokeStart(c, o, p, r, k, h, fresh)
       /\ UNCHANGED besideInvoke
    \/ /\ \E c \in DOMAIN pc, env \in http_answers, fresh \in FreshIds : HttpAttempt(c, env, fresh)
       /\ UNCHANGED besideInvoke
    \/ /\ \E c \in DOMAIN pc, env \in mcp_answers : McpAttempt(c, env)
       /\ UNCHANGED besideInvoke
    \/ /\ \E c \in DOMAIN pc : McpAttemptWithoutCallTool(c)
       /\ UNCHANGED besideInvoke
    \/ /\ \E c \in DOMAIN pc : RetryDelay(c)
       /\ UNCHANGED besideInvoke

Next ==
    InvokeNext(RetryOperations, RetryPayloads, RetryRequestIds, RetryKeys, RetryPrevHashes,
               HttpAnswers, McpAnswers)

Spec == Init /\ [][Next]_vars

\* The loop of invoke under a transport that answers and a clock that runs
LiveAdapters ==
    AdaptersOf({"http", "mcp"}, 0..MaxAttemptsBound, {NoneV}, {NoneV},
               {Int_(0), Int_(2), Int_(-1)}, BOOLEAN)

LiveHttpAnswers ==
    {[kind |-> "response", status |-> 200, requestId |-> None, body |-> NoneV, exc |-> NoError],
     [kind |-> "HTTPError", status |-> 400, requestId |-> None, code |-> None, exc |-> NoError],
     [kind |-> "HTTPError", status |-> 503, requestId |-> None, code |-> None, exc |-> NoError]}

LiveMcpAnswers ==
    {McpReturn(Dict([ok |-> Bool(TRUE), status |-> Int_(200), body |-> Int_(1)])),
     McpReturn(Dict([ok |-> Bool(TRUE), status |-> Int_(503)])),
     McpRaise(OtherError("TimeoutError", << >>))}

InitLive ==
    /\ InvokeInit(LiveAdapters, Calls)
    /\ SseInit
    /\ CanonOff
    /\ ArtOff
    /\ RunOff

NextLive ==
    InvokeNext({GoodOperation}, RetryPayloads, {NoneV}, {PaddedKey}, {NoneV},
               LiveHttpAnswers, LiveMcpAnswers)

\* invoke runs on the caller's thread: a call of the dispatcher that is under
\* way comes back (the transport returns or raises, and the loop iteration
\* goes on to a return, a raise or a sleep), and a sleep that has begun ends
\* (in the next attempt or a raise).  Both are steps of NextLive; they are
\* stated on pc alone, which every such step changes.
DispatcherComesBack ==
    \E c \in Calls, to \in {"returned", "raised", "delay"} :
        pc[c] = "attempt" /\ pc' = [pc EXCEPT ![c] = to]

SleepEnds ==
    \E c \in Calls, to \in {"attempt", "raised"} :
        pc[c] = "delay" /\ pc' = [pc EXCEPT ![c] = to]

SpecLive ==
    InitLive /\ [][NextLive]_vars /\ WF_pc(DispatcherComesBack) /\ WF_pc(SleepEnds)

\* operations, payloads and call options that fail validation in every way
StringOperation == Str(S("op"))

RelativePathOperation ==
    Dict([operationId |-> Str(S("op")), method |-> Str(S("post")),
          path |-> Str(S("runs")), toolName |-> Str(S("tool"))])

FieldsOperation ==
    Dict([operationId |-> Str(S("op")), method |-> Str(S("post")),
          path |-> Str(<< "/", "runs" >>), toolName |-> Str(S("tool")),
          requiredFields |-> List(<< Str(<< "payload", ".", "amountCents" >>),
                                     Str(S("note")) >>),
          sha256Fields |-> List(<< Str(S("digest")) >>),
          expectedPrevChainHashRequired |-> Bool(TRUE)])

OptionalKeyOperation ==
    Dict([operationId |-> Str(S("op")), method |-> Str(S("post")),
          path |-> Str(<< "/", "runs" >>), toolName |-> Str(S("tool")),
          idempotencyRequired |-> Bool(FALSE)])

ZeroKeyOperation ==
    Dict([operationId |-> Str(S("op")), method |-> Str(S("post")),
          path |-> Str(<< "/", "runs" >>), toolName |-> Str(S("tool")),
          idempotencyRequired |-> Int_(0)])

NoMethodOperation ==
    Dict([operationId |-> Str(S("op")), path |-> Str(<< "/", "runs" >>),
          toolName |-> Str(S("tool"))])

NoPathOperation ==
    Dict([operationId |-> Str(S("op")), method |-> Str(S("post")),
          toolName |-> Str(S("tool"))])

NoToolOperation ==
    Dict([operationId |-> Str(S("op")), method |-> Str(S("post")),
          path |-> Str(<< "/", "runs" >>)])

TwoDigestsOperation ==
    Dict([operationId |-> Str(S("op")), method |-> Str(S("post")),
          path |-> Str(<< "/", "runs" >>), toolName |-> Str(S("tool")),
          sha256Fields |-> List(<< Str(S("digest")), Str(S("note")) >>)])

NestedPayload(note, digest) ==
    Dict([payload |-> Dict([amountCents |-> Int_(5)]), note |-> note, digest |-> digest])

ValidationOperations ==
    {GoodOperation, NoIdOperation, StringOperation, RelativePathOperation, FieldsOperation,
     OptionalKeyOperation, ZeroKeyOperation, NoMethodOperation, NoPathOperation,
     NoToolOperation, TwoDigestsOperation}

ValidationPayloads ==
    {NoneV, Str(S("x")), GoodPayload,
     NestedPayload(Str(S("n")), Str(Hash("b"))),
     NestedPayload(Str(<< " " >>), Str(Hash("b"))),
     NestedPayload(Str(S("n")), Str(S("xyz"))),
     NestedPayload(Str(S("n")), Str(<< " " >> \o Hash("b") \o << " " >>)),
     Dict([note |-> Str(S("n")), digest |-> Str(Hash("b"))])}

ValidationKeys == {NoneV, Str(<< " " >>), PaddedKey}
ValidationPrevHashes == {NoneV, Str(Hash("a")), Str(S("xyz"))}

ValidationAdapters ==
    AdaptersOf({"http", "mcp"}, 1..MaxAttemptsBound, {NoneV}, {NoneV}, {Int_(0)}, BOOLEAN)

\* the parity adapter, called with arguments that may fail validation
InitValidation ==
    /\ InvokeInit(ValidationAdapters, Calls)
    /\ SseInit
    /\ CanonOff
    /\ ArtOff
    /\ RunOff

\* a success and a retryable failure on each transport
ValidationHttpAnswers ==
    {env \in HttpAnswers : env.kind = "response" \/ (env.kind = "HTTPError" /\ env.status = 503)}
ValidationMcpAnswers ==
    {env \in McpAnswers : env.kind = "return" /\ env.raw.t = "dict"
                            /\ Get(env.raw.v, "ok") = Bool(TRUE)}

NextValidation ==
    InvokeNext(ValidationOperations, ValidationPayloads, RetryRequestIds, ValidationKeys,
               ValidationPrevHashes, ValidationHttpAnswers, ValidationMcpAnswers)

SpecValidation == InitValidation /\ [][NextValidation]_vars

\* two invoke calls in flight on one adapter, their steps interleaved
SharedCalls == {"first", "second"}
SharedMaxAttempts == 2
SharedKeys == {PaddedKey, Str(S("k2"))}

SharedAdapters ==
    AdaptersOf({"http", "mcp"}, {SharedMaxAttempts}, {NoneV}, {NoneV}, {Int_(0)}, BOOLEAN)

SharedHttpAnswers ==
    {env \in HttpAnswers : env.kind = "response" \/ (env.kind = "HTTPError" /\ env.status = 503)}
SharedMcpAnswers ==
    {McpReturn(Dict([ok |-> Bool(TRUE), status |-> Int_(200), body |-> Int_(1)])),
     McpReturn(Dict([ok |-> Bool(FALSE)])),
     McpRaise(OtherError("TimeoutError", << >>))}

InitShared ==
    /\ InvokeInit(SharedAdapters, SharedCalls)
    /\ SseInit
    /\ CanonOff
    /\ ArtOff
    /\ RunOff

NextShared ==
    InvokeNext(RetryOperations, {GoodPayload}, RetryRequestIds, SharedKeys, {NoneV},
               SharedHttpAnswers, SharedMcpAnswers)

SpecShared == InitShared /\ [][NextShared]_vars

\* the event stream reader: one stream, read to its end
SseNext ==
    \/ /\ nread < MaxChunks
       /\ \E chunk \in Chunks : ReadLine(chunk)
       /\ UNCHANGED besideSse
    \/ /\ EndOfStream
       /\ UNCHANGED besideSse

\* no invoke call is made beside the stream
InitSse ==
    /\ InvokeInit({ParityAdapter("http", 1, NoneV, NoneV, Int_(0), FALSE)}, {})
    /\ SseInit
    /\ CanonOff
    /\ ArtOff
    /\ RunOff

SpecSse == InitSse /\ [][SseNext]_vars

\* the canonical encoder: one value, built a second time, encoded, and its
\* canonical form canonicalized again
InitCanon ==
    /\ InvokeInit({ParityAdapter("http", 1, NoneV, NoneV, Int_(0), FALSE)}, {})
    /\ SseInit
    /\ CanonInit(CanonValues)
    /\ ArtOff
    /\ RunOff

NextCanon ==
    \/ /\ \E b \in CanonValues : CanonRebuild(b)
       /\ UNCHANGED besideCanon
    \/ /\ CanonEncode
       /\ UNCHANGED besideCanon
    \/ /\ CanonAgain
       /\ UNCHANGED besideCanon

SpecCanon == InitCanon /\ [][NextCanon]_vars

\* Building artifacts: an agreement, evidence for it and a hold, or the
\* envelope that opens a dispute
InitArtifacts ==
    /\ InvokeInit({ParityAdapter("http", 1, NoneV, NoneV, Int_(0), FALSE)}, {})
    /\ SseInit
    /\ CanonOff
    /\ ArtInit
    /\ RunOff

NextArtifacts ==
    \/ /\ \E params \in AgreementParams : CreateAgreement(params)
       /\ UNCHANGED besideArt
    \/ /\ \E extra \in EvidenceExtras : SignEvidence(extra)
       /\ UNCHANGED besideArt
    \/ /\ \E params \in HoldParams, status \in HoldStatuses : CreateHold(params, status)
       /\ UNCHANGED besideArt
    \/ /\ \E params \in HoldParams, status \in HoldStatuses : Settle(params, status)
       /\ UNCHANGED besideArt
    \/ /\ \E params \in EnvelopeParams, tenant_id \in EnvelopeTenants, fresh_nonce \in EnvelopeNonces :
             BuildDisputeOpenEnvelope(params, tenant_id, fresh_nonce)
       /\ UNCHANGED besideArt

SpecArtifacts == InitArtifacts /\ [][NextArtifacts]_vars

\* Opening a dispute: the caller builds an envelope, or opens a dispute, or
\* does the one after the other
InitDisputes == InitArtifacts

NextDisputes ==
    \/ /\ \E params \in EnvelopeParams, tenant_id \in EnvelopeTenants, fresh_nonce \in EnvelopeNonces :
             BuildDisputeOpenEnvelope(params, tenant_id, fresh_nonce)
       /\ UNCHANGED besideArt
    \/ /\ \E params \in DisputeParams, tenant_id \in EnvelopeTenants, fresh_nonce \in EnvelopeNonces,
             status \in HoldStatuses :
             OpenDispute(params, tenant_id, fresh_nonce, status)
       /\ UNCHANGED besideArt

SpecDisputes == InitDisputes /\ [][NextDisputes]_vars

\* The two flows that append run events
InitRuns ==
    /\ InvokeInit({ParityAdapter("http", 1, NoneV, NoneV, Int_(0), FALSE)}, {})
    /\ SseInit
    /\ CanonOff
    /\ ArtOff
    /\ RunInit

NextRuns ==
    \/ /\ FirstVerifiedRun
       /\ UNCHANGED besideRun
    \/ /\ FirstPaidRfq
       /\ UNCHANGED besideRun

SpecRuns == InitRuns /\ [][NextRuns]_vars

\* ------------------------------------------------------------- properties

IsDispatch(ev) == ev.e = "dispatch"
IsDelay(ev) == ev.e = "delay"

\* the calls of the single-attempt dispatcher one invoke has made, in order
Dispatches(c) == SelectSeq(trace[c], IsDispatch)

\* the transport answered "service unavailable" (status 503)
Unavailable(env) ==
    \/ env.kind = "HTTPError" /\ env.status = 503
    \/ env.kind = "return" /\ env.raw = Dict([ok |-> Bool(TRUE), status |-> Int_(503)])

\* the transport answered with a success (status 200)
Succeeded(env) ==
    \/ env.kind = "response" /\ env.status = 200
    \/ env.kind = "return" /\ env.raw.t = "dict" /\ Get(env.raw.v, "ok") = Bool(TRUE)
       /\ Get(env.raw.v, "status") = Int_(200) /\ Get(env.raw.v, "error").t = "none"

\* the transport answered "bad request" (status 400, no code)
BadRequest(env) == env.kind = "HTTPError" /\ env.status = 400 /\ env.code = None

DefaultRetrySets == adapter.raw_retry_status_codes = NoneV /\ adapter.raw_retry_codes = NoneV

\* the retry configuration as the caller gave it
ConfiguredStatuses ==
    IF adapter.raw_retry_status_codes = NoneV
    THEN {408, 409, 425, 429, 500, 502, 503, 504}
    ELSE SeqToSet(adapter.raw_retry_status_codes.v)

CodeConfigured(code) ==
    /\ adapter.raw_retry_codes # NoneV
    /\ \E i \in 1..Len(adapter.raw_retry_codes.v) :
          Lower(Strip(adapter.raw_retry_codes.v[i].v)) = Lower(code)

\* the retryability rule of the specification
RetryableRule(status, code) ==
    status <= 0 \/ status \in ConfiguredStatuses \/ CodeConfigured(code)

\* C1: with the default retry sets, when the transport has failed on attempts
\* 1..k-1 with status 503 and succeeds on attempt k, invoke returns a success
\* result with attempts = k after exactly k transport calls (k <= max_attempts).
C1_RetryToSuccess ==
    \A c \in DOMAIN pc :
        LET d == Dispatches(c)
            k == Len(d)
        IN (/\ DefaultRetrySets
            /\ k >= 1
            /\ \A i \in 1..(k - 1) : d[i].wire /\ Unavailable(d[i].env)
            /\ d[k].wire /\ Succeeded(d[k].env))
           => /\ pc[c] = "returned"
              /\ outcome[c].kind = "result"
              /\ outcome[c].result.ok
              /\ outcome[c].result.attempts = k
              /\ k <= adapter.max_attempts
              /\ \A i \in 1..k : d[i].attempt = i

C1_Witness ==
    \E c \in DOMAIN pc :
        /\ pc[c] = "returned"
        /\ DefaultRetrySets
        /\ adapter.max_attempts = 3
        /\ Len(Dispatches(c)) = 3
        /\ Unavailable(Dispatches(c)[1].env)
        /\ Unavailable(Dispatches(c)[2].env)
        /\ Succeeded(Dispatches(c)[3].env)
        /\ outcome[c].result.attempts = 3

\* C2: an attempt that fails with a status > 0 outside the retry-status set and
\* a code outside the retry-code set ends invoke: the error is raised with
\* retryable = FALSE and no later call is made; a transport that answers 400
\* is called exactly once and the error has attempts = 1, whatever max_attempts.
C2_TerminalFailure ==
    \A c \in DOMAIN pc :
        LET d == Dispatches(c)
            err == parity_error[c]
        IN /\ (/\ Len(d) >= 1
               /\ err.type = "NooterraParityError"
               /\ err.status > 0
               /\ err.status \notin ConfiguredStatuses
               /\ ~CodeConfigured(err.code))
              => /\ pc[c] = "raised"
                 /\ outcome[c].error = err
                 /\ ~err.retryable
                 /\ err.attempts = Len(d)
           /\ (/\ Len(d) >= 1
               /\ BadRequest(d[1].env)
               /\ 400 \notin ConfiguredStatuses)
              => /\ Len(d) = 1
                 /\ pc[c] = "raised"
                 /\ outcome[c].error.status = 400
                 /\ ~outcome[c].error.retryable
                 /\ outcome[c].error.attempts = 1

C2_Witness ==
    \E c \in DOMAIN pc :
        /\ adapter.max_attempts = 3
        /\ DefaultRetrySets
        /\ Len(Dispatches(c)) = 1
        /\ BadRequest(Dispatches(c)[1].env)
        /\ pc[c] = "raised"
        /\ outcome[c].error.attempts = 1

\* the dispatcher's answer names its status and code itself
Explicit(env) == env.kind \in {"HTTPError", "exception", "raise"}

ReportedStatus(env) ==
    CASE env.kind = "HTTPError" -> env.status
      [] env.kind = "raise" /\ env.exc.type \in {"NooterraParityError", "NooterraApiError"} ->
            env.exc.status
      [] OTHER -> 0

ReportedCode(env) ==
    CASE env.kind = "HTTPError" ->
            IF env.code = None THEN << "PARITY_", "REQUEST_REJECTED" >> ELSE env.code
      [] env.kind = "raise" /\ env.exc.type \in {"NooterraParityError", "NooterraApiError"} ->
            IF env.exc.code = None THEN << "PARITY_", "REQUEST_REJECTED" >> ELSE env.exc.code
      [] OTHER -> << "PARITY_", "TRANSPORT_ERROR" >>

\* C3: the Parity Error invoke raises from the attempt loop is the one of the
\* last attempt made: its status and code are those of the last answer, its
\* retryable field is the classification of that failure, its attempts field is
\* the number of attempts made; when it is retryable (every attempt failed
\* retryably) exactly max_attempts attempts were made.
C3_Exhaustion ==
    \A c \in DOMAIN pc :
        LET d == Dispatches(c)
            last == d[Len(d)]
            err == outcome[c].error
        IN (pc[c] = "raised" /\ err.type = "NooterraParityError" /\ Len(d) >= 1)
           => /\ err.attempts = Len(d)
              /\ last.attempt = Len(d)
              /\ Len(d) <= adapter.max_attempts
              /\ (last.wire /\ Explicit(last.env))
                 => /\ err.status = ReportedStatus(last.env)
                    /\ err.code = ReportedCode(last.env)
              /\ err.retryable = RetryableRule(err.status, err.code)
              /\ err.retryable => Len(d) = adapter.max_attempts

C3_Witness ==
    \E c \in DOMAIN pc :
        LET d == Dispatches(c)
        IN /\ pc[c] = "raised"
           /\ adapter.max_attempts = 3
           /\ Len(d) = 3
           /\ d[1].env.kind = "exception"
           /\ d[2].env.kind = "HTTPError" /\ d[2].env.status = 503
           /\ d[3].env.kind = "HTTPError" /\ d[3].env.status = 409
           /\ outcome[c].error.status = 409
           /\ outcome[c].error.retryable
           /\ outcome[c].error.attempts = 3

SameRequest(a, b) ==
    /\ a.request_id = b.request_id
    /\ a.idempotency_key = b.idempotency_key
    /\ a.expected_prev_chain_hash = b.expected_prev_chain_hash
    /\ a.body = b.body

\* C4: every attempt of one invoke, on the http and on the mcp adapter, is
\* dispatched with the request id, idempotency key, expected previous chain
\* hash and payload of the first attempt.
C4_IdempotencyStability ==
    \A c \in DOMAIN pc :
        LET d == Dispatches(c)
        IN \A i \in 1..Len(d) :
              d[i].wire
              => /\ SameRequest(d[i].request, d[1].request)
                 /\ d[i].request.body = args[c].payload
                 /\ d[i].request.request_id # None
                 /\ adapter.transport = "mcp"
                    => /\ d[i].request.header_request_id = d[1].request.request_id
                       /\ d[i].request.header_idempotency_key = d[1].request.idempotency_key

C4_Witness ==
    \E c \in DOMAIN pc :
        LET d == Dispatches(c)
        IN /\ Len(d) = 3
           /\ adapter.transport = "http"
           /\ args[c].request_id = NoneV
           /\ d[3].wire
           /\ d[3].request.idempotency_key = << "k", "1" >>
           /\ d[3].request.expected_prev_chain_hash = Hash("a")

ValidationCodes ==
    {PARITY_REASON_CODE(key) :
        key \in {"OPERATION_INVALID", "PAYLOAD_REQUIRED", "REQUIRED_FIELD_MISSING",
                 "SHA256_FIELD_INVALID", "IDEMPOTENCY_KEY_REQUIRED",
                 "EXPECTED_PREV_CHAIN_HASH_REQUIRED"}}

\* the requiredFields paths of an operation the payload has no value for
Absent(payload, path) ==
    LET value == get_value_at_path(payload, path)
    IN value.t = "none" \/ (value.t = "str" /\ Strip(value.v) = << >>)

\* C5: when invoke fails operation resolution or payload validation, no
\* transport call has been made and none is made later; the error is a Parity
\* Error with one of the six validation codes, status 400, retryable = FALSE and
\* attempts = 1.  No transport call is made before validation has passed.  A
\* payload without a value at a requiredFields path fails with
\* REQUIRED_FIELD_MISSING, and details.field is the first such path.
C5_ValidationPrecedesDispatch ==
    \A c \in DOMAIN pc :
        LET err == outcome[c].error
            op == resolved[c].operation
        IN /\ (pc[c] = "raised" /\ attempt[c] = 0)
              => /\ trace[c] = << >>
                 /\ err.type = "NooterraParityError"
                 /\ err.code \in ValidationCodes
                 /\ err.status = 400
                 /\ ~err.retryable
                 /\ err.attempts = 1
           /\ trace[c] # << >> => attempt[c] >= 1
           /\ (/\ pc[c] # "idle"
               /\ op # NoneV
               /\ args[c].payload.t = "dict"
               /\ \E i \in 1..Len(op.requiredFields) :
                     Absent(args[c].payload, op.requiredFields[i]))
              => /\ pc[c] = "raised"
                 /\ attempt[c] = 0
                 /\ err.code = PARITY_REASON_CODE("REQUIRED_FIELD_MISSING")
                 /\ \E i \in 1..Len(op.requiredFields) :
                       /\ err.details = Dict([field |-> Str(op.requiredFields[i])])
                       /\ Absent(args[c].payload, op.requiredFields[i])
                       /\ \A j \in 1..(i - 1) : ~Absent(args[c].payload, op.requiredFields[j])

C5_Witness ==
    \E c \in DOMAIN pc :
        /\ pc[c] = "raised"
        /\ args[c].operation = FieldsOperation
        /\ args[c].payload = GoodPayload
        /\ trace[c] = << >>
        /\ outcome[c].error.code = PARITY_REASON_CODE("REQUIRED_FIELD_MISSING")
        /\ outcome[c].error.details = Dict([field |-> Str(<< "payload", ".", "amountCents" >>)])
        /\ outcome[c].error.status = 400
        /\ outcome[c].error.attempts = 1

\* C6 (as the specification states it): every failure of invoke is raised as
\* a NooterraParityError.
C6_SingleErrorType ==
    \A c \in DOMAIN pc :
        pc[c] = "raised" => outcome[c].error.type = "NooterraParityError"

\* the error of the latest attempt of call c, when that attempt failed
LastFailure(c) ==
    /\ parity_error[c].type = "NooterraParityError"
    /\ parity_error[c].attempts = Len(Dispatches(c))

\* C7: the error of every failed attempt is classified retryable exactly when
\* its status is <= 0, or its status is in the configured retry-status set, or
\* its code is, ignoring case, in the configured retry-code set; every Parity
\* Error raised from the attempt loop carries that classification.
C7_RetryabilityRule ==
    \A c \in DOMAIN pc :
        /\ LastFailure(c)
           => parity_error[c].retryable
              = RetryableRule(parity_error[c].status, parity_error[c].code)
        /\ (pc[c] = "raised" /\ attempt[c] >= 1
            /\ outcome[c].error.type = "NooterraParityError")
           => /\ outcome[c].error = parity_error[c]
              /\ outcome[c].error.retryable
                 = RetryableRule(outcome[c].error.status, outcome[c].error.code)

C7_Witness ==
    \E c \in DOMAIN pc :
        /\ LastFailure(c)
        /\ ConfiguredStatuses = {400}
        /\ adapter.raw_retry_codes # NoneV
        /\ parity_error[c].status = 409
        /\ parity_error[c].code = S("Busy")
        /\ parity_error[c].retryable
        /\ pc[c] = "delay"

\* the latest attempt of call c ended with an exception of the given kind
\* thrown by the single-attempt dispatcher
LastThrew(c, types) ==
    LET d == Dispatches(c)
        last == d[Len(d)]
    IN /\ Len(d) >= 1
       /\ last.wire
       /\ \/ last.env.kind = "exception" /\ "other" \in types
          \/ last.env.kind = "HTTPError" /\ "api" \in types
          \/ /\ last.env.kind = "raise"
             /\ last.env.exc.type \notin {"NooterraParityError", "NooterraApiError"}
             /\ "other" \in types

\* the name of the exception type the dispatcher threw
CauseName(env) == IF env.kind = "HTTPError" THEN "NooterraApiError" ELSE env.exc.type

CoercedToTransportError(c) ==
    LET d == Dispatches(c)
        last == d[Len(d)]
        err == parity_error[c]
    IN /\ LastFailure(c)
       /\ err.status = 0
       /\ err.code = PARITY_REASON_CODE("TRANSPORT_ERROR")
       /\ err.details = Dict([causeName |-> Str(S(CauseName(last.env)))])
       /\ err.retryable
       /\ last.attempt < adapter.max_attempts
          => \/ pc[c] \in {"delay", "attempt"}
             \/ pc[c] = "raised" /\ outcome[c].error.type = "ValueError"
       /\ last.attempt = adapter.max_attempts
          => pc[c] = "raised" /\ outcome[c].error = err

\* C8 (as the specification states it): every exception thrown by the
\* dispatcher that is not a Parity Error is coerced to status 0 and code
\* TRANSPORT_ERROR with the type name in details, and is retryable.
C8_AnyNonParityException ==
    \A c \in DOMAIN pc : LastThrew(c, {"api", "other"}) => CoercedToTransportError(c)

\* C8: an exception thrown by the dispatcher that is neither a Parity Error nor
\* a NooterraApiError is coerced to a Parity Error with status 0 and code
\* TRANSPORT_ERROR whose details carry the type name; it is classified
\* retryable, so the loop raises it only after the last allowed attempt.  A
\* NooterraApiError keeps its status and its code (REQUEST_REJECTED if it has
\* none) and is classified by the retryability rule.
C8_UnknownException ==
    \A c \in DOMAIN pc :
        LET d == Dispatches(c)
            last == d[Len(d)]
            err == parity_error[c]
        IN /\ LastThrew(c, {"other"}) => CoercedToTransportError(c)
           /\ LastThrew(c, {"api"})
              => /\ LastFailure(c)
                 /\ err.status = last.env.status
                 /\ err.code = ReportedCode(last.env)
                 /\ err.retryable = RetryableRule(err.status, err.code)

C8_Witness ==
    \E c \in DOMAIN pc :
        /\ LastThrew(c, {"other"})
        /\ Dispatches(c)[1].env.exc.type = "URLError"
        /\ parity_error[c].status = 0
        /\ parity_error[c].details = Dict([causeName |-> Str(S("URLError"))])
        /\ pc[c] = "delay"

\* C9: the attempts of one invoke are made one after the other, attempt n + 1
\* after attempt n has returned or raised; the retry delay of attempt n is
\* resolved exactly once, between attempt n and attempt n + 1, and slept when
\* positive; there is no delay before the first attempt, after a successful
\* attempt, after a non-retryable failure or after the last allowed attempt.
C9_SequentialAttempts ==
    \A c \in DOMAIN pc :
        LET t == trace[c]
        IN /\ \A i \in 1..Len(t) :
                 IF i % 2 = 1
                 THEN /\ IsDispatch(t[i])
                      /\ t[i].attempt = (i + 1) \div 2
                      /\ i > 1 => t[i - 1].value >= 0
                 ELSE /\ IsDelay(t[i])
                      /\ t[i].attempt = i \div 2
                      /\ t[i].attempt < adapter.max_attempts
                      /\ t[i].slept = (t[i].value > 0)
           /\ pc[c] = "attempt" => Len(t) = 2 * (attempt[c] - 1)
           /\ pc[c] = "delay"
              => /\ Len(t) = 2 * attempt[c] - 1
                 /\ parity_error[c].retryable
                 /\ attempt[c] < adapter.max_attempts
           /\ pc[c] = "returned" => Len(t) % 2 = 1
           /\ (pc[c] = "raised" /\ attempt[c] >= 1
               /\ outcome[c].error.type = "NooterraParityError")
              => Len(t) % 2 = 1
           /\ (pc[c] = "raised" /\ Len(t) % 2 = 1 /\ ~outcome[c].error.retryable)
              => Len(t) = 2 * attempt[c] - 1

C9_Witness ==
    \E c \in DOMAIN pc :
        /\ pc[c] = "returned"
        /\ Len(trace[c]) = 5
        /\ IsDelay(trace[c][2]) /\ trace[c][2].slept
        /\ IsDelay(trace[c][4]) /\ trace[c][4].slept
        /\ IsDispatch(trace[c][5])

\* the lines of a block that set the given field, and the value of a line
\* (the text after the first colon, less one leading space)
FieldLines(lines, field) ==
    {i \in 1..Len(lines) : Head(lines[i]) # ":" /\ Partition(lines[i]).field = << field >>}

LineValue(line) ==
    LET value == Partition(line).value
    IN IF value # << >> /\ Head(value) = " " THEN Tail(value) ELSE value

Max(set) == CHOOSE x \in set : \A y \in set : x >= y

LastValue(lines, field) == LineValue(lines[Max(FieldLines(lines, field))])

RECURSIVE DataValues(_)
DataValues(lines) ==
    IF lines = << >> THEN << >>
    ELSE IF 1 \in FieldLines(lines, "data")
    THEN << LineValue(lines[1]) >> \o DataValues(Tail(lines))
    ELSE DataValues(Tail(lines))

\* the event of a block with data lines, for the given event name and id
BlockEvent(lines, name, id) ==
    [event |-> name, id |-> id, rawData |-> JoinLines(DataValues(lines)),
     data |-> decode_sse_data(JoinLines(DataValues(lines)))]

\* a block with a data line has just been closed by a blank line
DataBlockClosed ==
    /\ boundary.n >= 1
    /\ ~boundary.at_end
    /\ FieldLines(boundary.lines, "data") # {}

\* C10 (as the specification states it): a block closed by a blank line that
\* has a data line yields exactly one event whose event is the last event:
\* value of the block ("message" if the block has no event: line) and whose id
\* is the last id: value of the block (null if the block has no id: line).
C10_LastValueAsWritten ==
    DataBlockClosed
    => LET lines == boundary.lines
       IN boundary.yielded =
             << BlockEvent(lines,
                           IF FieldLines(lines, "event") = {} THEN S("message")
                           ELSE LastValue(lines, "event"),
                           IF FieldLines(lines, "id") = {} THEN None
                           ELSE LastValue(lines, "id")) >>

\* C10: a block closed by a blank line that has a data line yields exactly one
\* event, computed from the lines of that block alone: event is the last
\* event: value of the block with surrounding white space removed, "message"
\* when the block has no event: line or that value is empty; id is the last
\* id: value with surrounding white space removed, null when the block has no
\* id: line or that value is empty; rawData is the data: values, less one
\* leading space, joined by newlines in order; data is rawData decoded.  The
\* reader's event name, id and data buffer are reset at every boundary, and
\* comment lines do not change the event.
C10_EventStreamFraming ==
    /\ DataBlockClosed
       => LET lines == boundary.lines
          IN boundary.yielded =
                << BlockEvent(lines,
                              IF FieldLines(lines, "event") = {} THEN S("message")
                              ELSE Or(Strip(LastValue(lines, "event")), S("message")),
                              IF FieldLines(lines, "id") = {} THEN None
                              ELSE Or(Strip(LastValue(lines, "id")), None)) >>
    /\ block = << >>
       => /\ event_name = S("message")
          /\ event_id = None
          /\ data_lines = << >>

C10_Witness ==
    /\ DataBlockClosed
    /\ boundary.lines = << << "event", ":", " ", "foo" >>, << "event", ":" >>,
                           << "data", ":", " ", "null" >> >>
    /\ boundary.yielded = << [event |-> S("message"), id |-> None,
                              rawData |-> S("null"), data |-> NoneV] >>

\* the lines of a block that are field lines (not comments)
NonCommentLines(lines) == {i \in 1..Len(lines) : Head(lines[i]) # ":"}

\* a block without data lines has been closed, by a blank line or by the end
\* of the stream
EmptyBlockClosed ==
    /\ boundary.n >= 1
    /\ FieldLines(boundary.lines, "data") = {}

\* C11 (as the specification states it): at a boundary with no accumulated data
\* lines the event is suppressed when the block has only comment lines or no
\* field line at all; in every other case, whether or not the block also has
\* comment lines, one event with empty data is emitted.
C11_SuppressionRule ==
    EmptyBlockClosed
    => IF NonCommentLines(boundary.lines) = {}
       THEN boundary.yielded = << >>
       ELSE /\ Len(boundary.yielded) = 1
            /\ boundary.yielded[1].rawData = << >>
            /\ boundary.yielded[1].data = NoneV

\* the event the emission rule gives for a block with data lines
TrimmedBlockEvent(lines) ==
    BlockEvent(lines,
               IF FieldLines(lines, "event") = {} THEN S("message")
               ELSE Or(Strip(LastValue(lines, "event")), S("message")),
               IF FieldLines(lines, "id") = {} THEN None
               ELSE Or(Strip(LastValue(lines, "id")), None))

\* C12: when the stream ends without a trailing blank line while data lines
\* are accumulated, the final event is emitted exactly once, by the rule used
\* at a blank line; when the stream ends right after a blank line (or before
\* any line) nothing more is emitted; the flush emits no earlier event again.
C12_EndOfStreamFlush ==
    sse_pc = "ended"
    => /\ boundary.at_end
       /\ block = << >>
       /\ yielded = boundary.before \o boundary.yielded
       /\ FieldLines(boundary.lines, "data") # {}
          => boundary.yielded = << TrimmedBlockEvent(boundary.lines) >>
       /\ boundary.lines = << >>
          => /\ boundary.yielded = << >>
             /\ yielded = boundary.before

C12_Witness ==
    /\ sse_pc = "ended"
    /\ boundary.n = 2
    /\ boundary.lines = << << "data", ":", "7" >> >>
    /\ Len(boundary.before) = 1
    /\ yielded = boundary.before
                 \o << [event |-> S("message"), id |-> None, rawData |-> S("7"),
                        data |-> Int_(7)] >>

\* one step of the reader, as seen from its output
OrderedStep ==
    \/ /\ boundary' = boundary
       /\ yielded' = yielded
    \/ /\ boundary'.n = boundary.n + 1
       /\ boundary'.lines = block
       /\ boundary'.before = yielded
       /\ yielded' = yielded \o boundary'.yielded
       /\ Len(boundary'.yielded) <= 1
       /\ Len(boundary'.yielded) = 1
          => boundary'.yielded[1].rawData = JoinLines(DataValues(block))
       /\ block' = << >>
       /\ \/ nread' = nread + 1 /\ sse_pc' # "ended"
          \/ nread' = nread /\ sse_pc' = "ended"

\* C13: the events are yielded in the order of the blocks they come from: each
\* step either yields nothing or closes the current block, appending at most
\* one event, made from that block, to the events yielded so far; the number of
\* events never exceeds the number of blank lines read plus one for the flush
\* at the end of the stream.
C13_Ordering ==
    /\ [](/\ Len(yielded) <= boundary.n
          /\ boundary.n <= nread + (IF sse_pc = "ended" THEN 1 ELSE 0))
    /\ [][OrderedStep]_vars

C13_Witness ==
    /\ sse_pc = "ended"
    /\ boundary.n = 2
    /\ nread = 3
    /\ Len(yielded) = 2
    /\ yielded[1].rawData = S("{x:1}")
    /\ yielded[2].rawData = S("7")

\* the keys of every mapping inside a value stand in lexicographic order
RECURSIVE KeysInOrder(_)
KeysInOrder(value) ==
    CASE value.t = "odict" ->
            /\ \A i \in 1..(Len(value.v) - 1) : TextLess(value.v[i][1], value.v[i + 1][1])
            /\ \A i \in 1..Len(value.v) : KeysInOrder(value.v[i][2])
      [] value.t = "list" -> \A i \in 1..Len(value.v) : KeysInOrder(value.v[i])
      [] OTHER -> TRUE

\* C14: two values that hold the same data, whatever order their mappings were
\* built in at any depth, are both accepted or both rejected, and when accepted
\* have the same canonical encoding and hence the same digest; the canonical
\* value and its encoding list the keys of every mapping in lexicographic order.
C14_CanonicalDeterminism ==
    (canon_pc \in {"encoded", "again"} /\ SameData(canon_a, canon_b))
    => /\ canon_out.a.json.ok = canon_out.b.json.ok
       /\ canon_out.a.json.text = canon_out.b.json.text
       /\ canon_out.a.digest = canon_out.b.digest
       /\ canon_out.a.canonical = canon_out.b.canonical
       /\ canon_out.a.canonical.ok
          => /\ KeysInOrder(canon_out.a.canonical.value)
             /\ canon_out.a.json.text = JsonDumps(canon_out.a.canonical.value)
             /\ SameData(canon_out.a.canonical.value, canon_a)

C14_Witness ==
    /\ canon_pc = "encoded"
    /\ canon_a = ODict(<< << << "b" >>, Int_(2) >>, << << "a" >>, Int_(1) >> >>)
    /\ canon_b = ODict(<< << << "a" >>, Int_(1) >>, << << "b" >>, Int_(2) >> >>)
    /\ canon_out.a.json.text
       = << "{", "\"", "a", "\"", ":", "1", ",", "\"", "b", "\"", ":", "2", "}" >>
    /\ canon_out.a.digest = canon_out.b.digest
    /\ Len(canon_out.a.digest) = Sha256HexLen

\* C15: canonicalizing a canonical value gives that value again; a key whose
\* value is None is kept, with the value None.
C15_CanonicalIdempotence ==
    /\ canon_pc = "again"
       => /\ canon_out.again.ok
          /\ canon_out.again.value = canon_out.a.canonical.value
    /\ (canon_pc \in {"encoded", "again"} /\ canon_a.t = "odict" /\ canon_out.a.canonical.ok)
       => \A key \in Keys(canon_a.v) :
             Lookup(canon_a.v, key) = NoneV
             => /\ key \in Keys(canon_out.a.canonical.value.v)
                /\ Lookup(canon_out.a.canonical.value.v, key) = NoneV

C15_Witness ==
    /\ canon_pc = "again"
    /\ canon_a = ODict(<< << << "b" >>, NoneV >>, << << "a" >>, Int_(1) >> >>)
    /\ canon_out.again.value = ODict(<< << << "a" >>, Int_(1) >>, << << "b" >>, NoneV >> >>)

\* a value holds, at some depth inside lists and mappings, a float that is not
\* finite or is negative zero, or a value of a kind that cannot be encoded
RECURSIVE HoldsUnsupported(_)
HoldsUnsupported(value) ==
    CASE value.t = "float" ->
            value.v \in {<< "n", "a", "n" >>, << "i", "n", "f" >>, << "-", "i", "n", "f" >>,
                         << "-", "0", ".", "0" >>}
      [] value.t = "list" -> \E i \in 1..Len(value.v) : HoldsUnsupported(value.v[i])
      [] value.t = "odict" -> \E i \in 1..Len(value.v) : HoldsUnsupported(value.v[i][2])
      [] value.t \in {"none", "str", "bool", "int"} -> FALSE
      [] OTHER -> TRUE

\* C16: a value that holds NaN, an infinity, negative zero or a value of an
\* unencodable kind at any depth is rejected with an error: there is no
\* canonical value, no encoding and no digest.  Every other value is accepted.
C16_CanonicalRejection ==
    canon_pc \in {"encoded", "again"}
    => IF HoldsUnsupported(canon_a)
       THEN /\ ~canon_out.a.canonical.ok
            /\ canon_out.a.canonical.error # ""
            /\ ~canon_out.a.json.ok
            /\ canon_out.a.json.text = None
            /\ canon_out.a.digest = None
            /\ canon_pc # "again"
       ELSE canon_out.a.canonical.ok /\ canon_out.a.json.ok

C16_Witness ==
    /\ canon_pc = "encoded"
    /\ canon_a = ODict(<< << << "b" >>, ODict(<< << << "a" >>, Int_(1) >> >>) >>,
                          << << "a" >>, List(<< Float(<< "i", "n", "f" >>) >>) >> >>)
    /\ ~canon_out.a.canonical.ok
    /\ canon_out.a.digest = None


\* ---- artifacts

\* the field of an artifact, and the artifact without some of its fields
Field(artifact, key) == OGet(artifact.v, key)
Without(artifact, keys) == ODict(SelectSeq(artifact.v, LAMBDA pair : pair[1] \notin {S(k) : k \in keys}))

EvidenceBuilt == art_evidence.op = "sign_evidence" /\ art_evidence.out.ok
LinkKeys == {"agreementHash", "callId", "inputHash"}
GivenLinks == {k \in LinkKeys : S(k) \in Keys(art_evidence.params.v)}

\* the evidence repeats the agreement's hash, callId and inputHash
EvidenceLinked ==
    /\ Field(art_evidence.out.artifact, "agreementHash") = Str(art_agreement.out.hash)
    /\ Field(art_evidence.out.artifact, "agreementHash")
           = Field(art_agreement.out.artifact, "agreementHash")
    /\ Field(art_evidence.out.artifact, "callId") = Field(art_agreement.out.artifact, "callId")
    /\ Field(art_evidence.out.artifact, "inputHash")
           = Field(art_agreement.out.artifact, "inputHash")

\* C17 as stated: whenever sign_evidence is given the agreement create_agreement
\* returned, the evidence it builds carries the agreement's agreementHash,
\* callId and inputHash.
C17_ChainConstructionAlways == EvidenceBuilt => EvidenceLinked

\* C17: when sign_evidence is given the agreement create_agreement returned and
\* no agreementHash, callId or inputHash of the caller's own, the evidence it
\* builds carries the agreement's agreementHash, callId and inputHash.
C17_ChainConstruction == EvidenceBuilt /\ GivenLinks = {} => EvidenceLinked

C17_Witness ==
    /\ EvidenceBuilt
    /\ GivenLinks = {}
    /\ EvidenceLinked
    /\ Field(art_agreement.out.artifact, "callId") = Str(<< " ", "call_1" >>)
    /\ S("output") \in Keys(art_evidence.params.v)


\* digest(value): the hash of the canonical encoding
Digest(value) == sha256_hex_utf8(canonical_json_dumps(value).text)

\* what a builder returned addresses itself: the hash field attached is the
\* digest returned, that digest is the digest of the artifact without the
\* appended fields, and canonicalJson encodes the artifact
SelfAddressed(out, hash_key, appended) ==
    /\ Field(out.artifact, hash_key) = Str(out.hash)
    /\ out.hash = Digest(Without(out.artifact, appended))
    /\ out.canonicalJson = canonical_json_dumps(out.artifact).text

\* C18: every artifact create_agreement, sign_evidence and
\* build_dispute_open_envelope return carries as agreementHash, evidenceHash
\* or envelopeHash the digest returned with it, which is the digest of the
\* artifact without that field (and, for the envelope, without the signature);
\* canonicalJson is the canonical encoding of the artifact.
C18_SelfAddressing ==
    /\ art_agreement.out.ok => SelfAddressed(art_agreement.out, "agreementHash", {"agreementHash"})
    /\ art_evidence.out.ok => SelfAddressed(art_evidence.out, "evidenceHash", {"evidenceHash"})
    /\ art_envelope.out.ok
           => SelfAddressed(art_envelope.out, "envelopeHash", {"envelopeHash", "signature"})

C18_Witness ==
    /\ art_agreement.out.ok
    /\ art_evidence.out.ok
    /\ Field(art_agreement.out.artifact, "payerAgentId") = NoneV
    /\ Field(art_evidence.out.artifact, "outputRef") = Str(S("ref"))
    /\ SelfAddressed(art_evidence.out, "evidenceHash", {"evidenceHash"})

C18_WitnessEnvelope ==
    /\ art_envelope.out.ok
    /\ Field(art_envelope.out.artifact, "reasonCode") = Str(<< "B", "A", "D", "_", "1" >>)
    /\ SelfAddressed(art_envelope.out, "envelopeHash", {"envelopeHash", "signature"})


\* ---- hold and settle

\* the number a parameter stands for, as far as the model's values go: an
\* int is itself, a float is compared through its sign and whole part
IsNumber(value) == value.t \in {"int", "float"}
NegativeNumber(value) ==
    \/ value.t = "int" /\ value.v < 0
    \/ value.t = "float" /\ Head(value.v) = "-" /\ \E i \in 1..Len(value.v) : value.v[i] \in (DecimalDigits \ {"0"})
AboveNumber(value, limit) ==
    \/ value.t = "int" /\ value.v > limit
    \/ value.t = "float" /\ Head(value.v) # "-"
           /\ \/ DigitsValue(Whole(value.v)) > limit
              \/ /\ DigitsValue(Whole(value.v)) = limit
                 /\ \E i \in 1..Len(value.v) :
                        /\ \E j \in 1..(i - 1) : value.v[j] = "."
                        /\ value.v[i] \in (DecimalDigits \ {"0"})

HoldCalled == art_hold.op \in {"create_hold", "settle"} /\ art_hold.params.t = "odict"
HoldParam(key, default) == OGetOr(art_hold.params.v, key, default)

\* a text of 64 hex digits, surrounding blanks and letter case aside
IsSha256Hex(value) == assert_sha256_hex(value).ok

\* the constraints on a hold that the parameters break
SamePayerAndPayee ==
    /\ HoldParam("payerAgentId", NoneV).t = "str"
    /\ HoldParam("payerAgentId", NoneV) = HoldParam("payeeAgentId", NoneV)
AmountNotPositiveInteger ==
    ~(IsInt(HoldParam("amountCents", NoneV)) /\ IntValue(HoldParam("amountCents", NoneV)) > 0)
HoldbackOutOfRange ==
    /\ IsNumber(HoldParam("holdbackBps", Int_(0)))
    /\ \/ NegativeNumber(HoldParam("holdbackBps", Int_(0)))
       \/ AboveNumber(HoldParam("holdbackBps", Int_(0)), HoldbackBpsMax)
WindowNegative ==
    /\ IsNumber(HoldParam("challengeWindowMs", Int_(0)))
    /\ NegativeNumber(HoldParam("challengeWindowMs", Int_(0)))
BadAgreementHash == ~IsSha256Hex(from_agreement(art_hold.params.v, "agreementHash"))
BadReceiptHash ==
    /\ ~IsSha256Hex(HoldParam("receiptHash", NoneV))
    /\ art_hold.op = "settle" => HoldParam("receiptHash", NoneV) # NoneV

ConstraintViolated ==
    \/ SamePayerAndPayee
    \/ AmountNotPositiveInteger
    \/ HoldbackOutOfRange
    \/ WindowNegative
    \/ BadAgreementHash
    \/ BadReceiptHash

FailedFast == ~art_hold.out.ok /\ art_hold.out.exc = "ValueError" /\ art_hold.out.requests = << >>

\* C19: when create_hold or settle is given parameters that break a
\* constraint (payer equal to payee, amountCents no positive integer,
\* holdbackBps outside 0..10000, challengeWindowMs below 0, an agreementHash or
\* receiptHash that is no sha256 hex), the call fails with a validation error
\* and the transport is given no request.
C19_HoldFailFast == HoldCalled /\ ConstraintViolated => FailedFast

\* the hold calls whose numbers are all integers
IntegersOnly ==
    /\ HoldParam("holdbackBps", Int_(0)).t # "float"
    /\ HoldParam("challengeWindowMs", Int_(0)).t # "float"

C19_IntegersFailFast == HoldCalled /\ ConstraintViolated /\ IntegersOnly => FailedFast

C19_IntegersWitness ==
    /\ HoldCalled /\ art_hold.op = "settle" /\ IntegersOnly /\ FailedFast
    /\ HoldParam("holdbackBps", Int_(0)) = Int_(10001)


\* ---- the run event chain

AppendTypes == {"RUN_STARTED", "EVIDENCE_ADDED", "RUN_COMPLETED"}
Appends == {i \in 1..Len(run_log) : run_log[i].kind = "request" /\ run_log[i].type \in AppendTypes}

\* the step whose response an append follows
StepBefore(flow, type) ==
    CASE flow = "first_paid_rfq" -> "accept_bid"
      [] type = "RUN_STARTED" -> "create_run"
      [] type = "EVIDENCE_ADDED" -> "RUN_STARTED"
      [] OTHER -> "EVIDENCE_ADDED"

\* the lastChainHash a logged response carries, None when it carries none
ChainHashOf(entry) == RunField(entry.run, "lastChainHash")

EchoesPreceding(i) ==
    /\ i > 1
    /\ run_log[i - 1].kind = "response"
    /\ run_log[i - 1].step = StepBefore(run_flow.name, run_log[i].type)
    /\ ChainHashOf(run_log[i - 1]).t = "str"
    /\ ChainHashOf(run_log[i - 1]).v # << >>
    /\ run_log[i].expected = ChainHashOf(run_log[i - 1])

\* C20: every append of first_verified_run (RUN_STARTED, EVIDENCE_ADDED,
\* RUN_COMPLETED) and the RUN_COMPLETED append of first_paid_rfq comes right
\* after the response of the step before it (create run, RUN_STARTED,
\* EVIDENCE_ADDED; the bid acceptance) and sends as expected previous chain
\* hash the lastChainHash of that response, which is a non-empty string: no
\* append follows a response without one.
C20_ChainEcho == \A i \in Appends : EchoesPreceding(i)

C20_Witness ==
    /\ run_flow.name = "first_verified_run"
    /\ run_pc = "done"
    /\ Cardinality(Appends) = 3
    /\ \E i, j, k \in Appends :
          /\ i < j /\ j < k
          /\ run_log[i].expected = Str(S("h1"))
          /\ run_log[j].expected = Str(<< " ", "h3" >>)
          /\ run_log[k].expected = Str(S("h2"))

C20_WitnessPaidRfq ==
    /\ run_flow.name = "first_paid_rfq"
    /\ run_pc = "done"
    /\ \E i \in Appends : run_log[i].type = "RUN_COMPLETED" /\ run_log[i].expected = Str(S("h2"))

\* a flow that stopped on a response without a usable hash sent no append after it
C20_StoppedWithoutHash ==
    /\ run_pc = "raised"
    /\ run_log # << >>
    /\ run_log[Len(run_log)].kind = "response"
    /\ run_log[Len(run_log)].step = "RUN_STARTED"
    /\ ChainHashOf(run_log[Len(run_log)]) = NoneV


\* ---------------------------------------------- operation resolution failure

\* the descriptor has no value under key
Lacks(operation, key) == Get(operation.v, key).t = "none"

\* the descriptor's path is there and does not start with "/"
RelativePath(operation) ==
    LET path == Get(operation.v, "path")
    IN path.t = "str" /\ path.v # << >> /\ Head(path.v) # "/"

\* a descriptor the adapter of the given transport cannot resolve
Unresolvable(operation, transport) ==
    /\ operation.t = "dict"
    /\ \/ Lacks(operation, "operationId")
       \/ /\ transport = "http"
          /\ \/ Lacks(operation, "method")
             \/ Lacks(operation, "path")
             \/ RelativePath(operation)
       \/ /\ transport = "mcp"
          /\ Lacks(operation, "toolName")

\* C21: invoke with an operation without operationId, or (http) without method
\* or with a path that is missing or does not start with "/", or (mcp) without
\* toolName, raises a Parity Error with code OPERATION_INVALID, status 400 and
\* retryable = FALSE; the payload has not been validated (no operation, request
\* id or key was resolved, whatever the payload is) and no transport call was made.
C21_OperationInvalid ==
    \A c \in DOMAIN pc :
        (pc[c] # "idle" /\ Unresolvable(args[c].operation, adapter.transport))
        => /\ pc[c] = "raised"
           /\ attempt[c] = 0
           /\ trace[c] = << >>
           /\ resolved[c] = NoResolved
           /\ outcome[c].kind = "error"
           /\ outcome[c].error.type = "NooterraParityError"
           /\ outcome[c].error.code = PARITY_REASON_CODE("OPERATION_INVALID")
           /\ outcome[c].error.status = 400
           /\ ~outcome[c].error.retryable

C21_Witness ==
    \E c \in DOMAIN pc :
        /\ pc[c] = "raised"
        /\ adapter.transport = "http"
        /\ args[c].operation = NoMethodOperation
        /\ args[c].payload = NoneV
        /\ trace[c] = << >>
        /\ outcome[c].error.code = PARITY_REASON_CODE("OPERATION_INVALID")
        /\ outcome[c].error.message = S("operation.method is required for http parity adapter")

C21_WitnessToolName ==
    \E c \in DOMAIN pc :
        /\ pc[c] = "raised"
        /\ adapter.transport = "mcp"
        /\ args[c].operation = NoToolOperation
        /\ trace[c] = << >>
        /\ outcome[c].error.code = PARITY_REASON_CODE("OPERATION_INVALID")

C21_WitnessPath ==
    \E c \in DOMAIN pc :
        /\ pc[c] = "raised"
        /\ adapter.transport = "http"
        /\ args[c].operation \in {NoPathOperation, RelativePathOperation}
        /\ args[c].payload = GoodPayload
        /\ trace[c] = << >>
        /\ outcome[c].error.code = PARITY_REASON_CODE("OPERATION_INVALID")


\* ------------------------------------------------ idempotency key by default

\* no usable idempotency key was passed
BlankKey(key) == key.t = "none" \/ (key.t = "str" /\ Strip(key.v) = << >>)

\* the operation of call c was resolved and its payload passes the checks made
\* before the idempotency key is looked at
PayloadChecksPass(c) ==
    LET op == resolved[c].operation
        payload == args[c].payload
    IN /\ op # NoneV
       /\ payload.t = "dict"
       /\ \A i \in 1..Len(op.requiredFields) : ~Absent(payload, op.requiredFields[i])
       /\ \A i \in 1..Len(op.sha256Fields) :
             IsSha256Hex(get_value_at_path(payload, op.sha256Fields[i]))

\* the descriptor gives idempotencyRequired a false value (False, 0)
OptsOut(operation) ==
    /\ operation.t = "dict"
    /\ ~Lacks(operation, "idempotencyRequired")
    /\ ~Truthy(Get(operation.v, "idempotencyRequired"))

\* C22: when the operation does not specify idempotencyRequired, invoke without
\* a non-blank idempotency key makes no transport call and raises, with
\* IDEMPOTENCY_KEY_REQUIRED once the payload has passed the earlier checks; a
\* call dispatched without an idempotency key has an operation that sets
\* idempotencyRequired to a false value.
C22_IdempotencyDefault ==
    \A c \in DOMAIN pc :
        /\ (/\ pc[c] # "idle"
            /\ args[c].operation.t = "dict"
            /\ Lacks(args[c].operation, "idempotencyRequired")
            /\ BlankKey(args[c].idempotency_key))
           => /\ pc[c] = "raised"
              /\ attempt[c] = 0
              /\ trace[c] = << >>
              /\ PayloadChecksPass(c)
                 => /\ outcome[c].error.code = PARITY_REASON_CODE("IDEMPOTENCY_KEY_REQUIRED")
                    /\ outcome[c].error.status = 400
                    /\ ~outcome[c].error.retryable
        /\ (trace[c] # << >> /\ BlankKey(args[c].idempotency_key))
           => OptsOut(args[c].operation)

C22_Witness ==
    \E c \in DOMAIN pc :
        /\ pc[c] = "raised"
        /\ args[c].operation = GoodOperation
        /\ args[c].payload = GoodPayload
        /\ args[c].idempotency_key = Str(<< " " >>)
        /\ trace[c] = << >>
        /\ outcome[c].error.code = PARITY_REASON_CODE("IDEMPOTENCY_KEY_REQUIRED")

C22_WitnessOptOut ==
    \E c \in DOMAIN pc :
        /\ pc[c] = "returned"
        /\ args[c].operation \in {OptionalKeyOperation, ZeroKeyOperation}
        /\ args[c].idempotency_key = NoneV
        /\ Len(Dispatches(c)) = 1
        /\ Dispatches(c)[1].wire


\* ------------------------------------------------------- rpc error mapping

\* call_tool answered with an object in which ok is false or an error is present
McpFailure(env) ==
    /\ env.kind = "return"
    /\ env.raw.t = "dict"
    /\ \/ Get(env.raw.v, "ok") = Bool(FALSE)
       \/ Get(env.raw.v, "error").t # "none"

\* the status inside the error sub-object of the answer, None when there is none
ErrorObjectStatus(env) ==
    LET error == Get(env.raw.v, "error")
    IN IF error.t = "dict" THEN Get(error.v, "status") ELSE NoneV

ValidHttpStatus(value) ==
    value.t = "int" /\ value.v >= HttpStatusMin /\ value.v <= HttpStatusMax

\* the status the error of such an answer has
McpFailureStatus(env) ==
    LET status == Get(env.raw.v, "status")
    IN IF ValidHttpStatus(ErrorObjectStatus(env)) THEN ErrorObjectStatus(env).v
       ELSE IF status.t = "none" THEN 500
       ELSE status.v

\* C23: on the mcp adapter an answer of call_tool in which ok is false or an
\* error object is present fails the attempt with a Parity Error and is never
\* returned as a success, whatever its status; the error has the valid HTTP
\* status of the error sub-object if there is one, else the status of the
\* answer, else 500; with the default retry sets the error with the default
\* status 500 is classified retryable and, while attempts remain, is not raised.
C23_RpcErrorMapping ==
    \A c \in DOMAIN pc :
        LET d == Dispatches(c)
            k == Len(d)
            err == parity_error[c]
        IN (k >= 1 /\ d[k].wire /\ McpFailure(d[k].env))
           => /\ pc[c] # "returned"
              /\ outcome[c].kind # "result"
              /\ err.type = "NooterraParityError"
              /\ err.attempts = k
              /\ err.status = McpFailureStatus(d[k].env)
              /\ (/\ DefaultRetrySets
                  /\ Get(d[k].env.raw.v, "status").t = "none"
                  /\ ~ValidHttpStatus(ErrorObjectStatus(d[k].env)))
                 => /\ err.status = 500
                    /\ err.retryable
                    /\ k < adapter.max_attempts => outcome[c].error # err

C23_Witness ==
    \E c \in DOMAIN pc :
        LET d == Dispatches(c)
        IN /\ adapter.transport = "mcp"
           /\ DefaultRetrySets
           /\ Len(d) = 3
           /\ d[1].env = McpReturn(Dict([ok |-> Bool(FALSE)]))
           /\ d[2].env = McpReturn(Dict([error |-> Dict([message |-> Str(S("boom"))])]))
           /\ d[3].env = McpReturn(Dict([ok |-> Bool(FALSE), status |-> Int_(200),
                                         code |-> Str(S("busy"))]))
           /\ pc[c] = "raised"
           /\ outcome[c].error.status = 200
           /\ outcome[c].error.attempts = 3

C23_WitnessErrorObject ==
    \E c \in DOMAIN pc :
        LET d == Dispatches(c)
        IN /\ adapter.transport = "mcp"
           /\ adapter.max_attempts = 3
           /\ DefaultRetrySets
           /\ Len(d) = 1
           /\ d[1].env = McpReturn(Dict([error |-> Dict([status |-> Int_(404)])]))
           /\ pc[c] = "raised"
           /\ outcome[c].error.status = 404
           /\ ~outcome[c].error.retryable


\* ------------------------------------------------- no shared mutable state

\* what call c was given: its arguments, the request id drawn for it, and the
\* answers of its own transport calls
OwnInputs(c) ==
    << args[c], resolved[c].request_id, [i \in 1..Len(trace[c]) |-> trace[c][i].env],
       [i \in 1..Len(trace[c]) |-> trace[c][i].e] >>

\* everything invoke keeps for call c
OwnState(c) == << pc[c], args[c], resolved[c], attempt[c], parity_error[c], outcome[c], trace[c] >>

\* two calls given the same have come to the same
C24_OwnInputsOnly ==
    \A c \in DOMAIN pc, o \in DOMAIN pc :
        OwnInputs(c) = OwnInputs(o) => OwnState(c) = OwnState(o)

\* a step of one call leaves the adapter and every other call as they were
C24_StepOfOneCall ==
    /\ adapter' = adapter
    /\ \E c \in DOMAIN pc :
          \A o \in DOMAIN pc \ {c} :
              /\ pc'[o] = pc[o]
              /\ args'[o] = args[o]
              /\ resolved'[o] = resolved[o]
              /\ attempt'[o] = attempt[o]
              /\ parity_error'[o] = parity_error[o]
              /\ outcome'[o] = outcome[o]
              /\ trace'[o] = trace[o]

\* C24: invoke never writes the configuration of the adapter; in every
\* interleaving of two invoke calls on one adapter a step of one call changes
\* nothing of the other, and the attempt counter, request id, idempotency key
\* and result or error of a call are determined by its own arguments and the
\* answers to its own transport calls.
C24_NoSharedMutableState == []C24_OwnInputsOnly /\ [][C24_StepOfOneCall]_vars

C24_Witness ==
    /\ pc["first"] = "attempt"
    /\ pc["second"] = "attempt"
    /\ attempt["first"] = 2
    /\ attempt["second"] = 2
    /\ Len(Dispatches("first")) = 1
    /\ Len(Dispatches("second")) = 1
    /\ resolved["first"].idempotency_key # resolved["second"].idempotency_key
    /\ resolved["first"].request_id # resolved["second"].request_id


\* ------------------------------------------------ order of validation checks

\* the checks of invoke before the first attempt, in the order of the
\* specification, each with the code of its error; check n of call c fails
CheckFails(c, n) ==
    LET op == resolved[c].operation
        payload == args[c].payload
        key == args[c].idempotency_key
        prev == args[c].expected_prev_chain_hash
    IN CASE n = 1 -> args[c].operation.t # "dict"
                       \/ Unresolvable(args[c].operation, adapter.transport)
         [] n = 2 -> payload.t # "dict"
         [] n = 3 -> /\ payload.t = "dict"
                     /\ \E i \in 1..Len(op.requiredFields) : Absent(payload, op.requiredFields[i])
         [] n = 4 -> /\ payload.t = "dict"
                     /\ \E i \in 1..Len(op.sha256Fields) :
                           ~IsSha256Hex(get_value_at_path(payload, op.sha256Fields[i]))
         [] n = 5 -> op.idempotencyRequired /\ BlankKey(key)
         [] n = 6 -> op.expectedPrevChainHashRequired /\ BlankKey(prev)
         [] n = 7 -> ~BlankKey(prev) /\ ~IsSha256Hex(prev)

CheckCode(n) ==
    CASE n = 1 -> PARITY_REASON_CODE("OPERATION_INVALID")
      [] n = 2 -> PARITY_REASON_CODE("PAYLOAD_REQUIRED")
      [] n = 3 -> PARITY_REASON_CODE("REQUIRED_FIELD_MISSING")
      [] n = 4 -> PARITY_REASON_CODE("SHA256_FIELD_INVALID")
      [] n = 5 -> PARITY_REASON_CODE("IDEMPOTENCY_KEY_REQUIRED")
      [] n = 6 -> PARITY_REASON_CODE("EXPECTED_PREV_CHAIN_HASH_REQUIRED")
      [] n = 7 -> PARITY_REASON_CODE("EXPECTED_PREV_CHAIN_HASH_REQUIRED")

\* the failing checks of call c; after a failed check 1 no later check applies
FailingChecks(c) ==
    IF CheckFails(c, 1) THEN {1} ELSE {n \in 2..7 : CheckFails(c, n)}

\* the first path of the list whose value fails
FirstField(paths, Fails(_)) ==
    paths[CHOOSE i \in 1..Len(paths) : Fails(paths[i]) /\ \A j \in 1..(i - 1) : ~Fails(paths[j])]

\* C25: when several checks fail at once, the error invoke raises has the code
\* of the first failing check in the order: operation resolution, payload is
\* an object, requiredFields in list order, sha256Fields in list order,
\* idempotency key present if required, expected previous chain hash present if
\* required, supplied expected previous chain hash valid; for a field check
\* the error names the first failing path of the list.
C25_ValidationOrder ==
    \A c \in DOMAIN pc :
        LET failing == FailingChecks(c)
            first == CHOOSE n \in failing : \A m \in failing : n <= m
            err == outcome[c].error
            payload == args[c].payload
            op == resolved[c].operation
            BadDigest(path) == ~IsSha256Hex(get_value_at_path(payload, path))
            Missing(path) == Absent(payload, path)
        IN (pc[c] # "idle" /\ failing # {})
           => /\ pc[c] = "raised"
              /\ attempt[c] = 0
              /\ err.code = CheckCode(first)
              /\ first = 3 => err.details =
                                 Dict([field |-> Str(FirstField(op.requiredFields, Missing))])
              /\ first = 4 => err.details =
                                 Dict([field |-> Str(FirstField(op.sha256Fields, BadDigest))])
              /\ first = 6 => err.message = S("expected_prev_chain_hash is required")
              /\ first = 7 => err.message = S("expected_prev_chain_hash must be sha256 hex")

\* an unusable payload, a blank key and an invalid chain hash at once
C25_Witness ==
    \E c \in DOMAIN pc :
        /\ pc[c] = "raised"
        /\ args[c].operation = TwoDigestsOperation
        /\ args[c].payload = NestedPayload(Str(S("n")), Str(S("xyz")))
        /\ FailingChecks(c) = {4, 5, 7}
        /\ outcome[c].error.code = PARITY_REASON_CODE("SHA256_FIELD_INVALID")
        /\ outcome[c].error.details = Dict([field |-> Str(S("digest"))])

C25_WitnessRequired ==
    \E c \in DOMAIN pc :
        /\ pc[c] = "raised"
        /\ args[c].operation = FieldsOperation
        /\ FailingChecks(c) = {3, 4, 5, 6}
        /\ outcome[c].error.code = PARITY_REASON_CODE("REQUIRED_FIELD_MISSING")

C25_WitnessOperation ==
    \E c \in DOMAIN pc :
        /\ pc[c] = "raised"
        /\ args[c].operation = NoIdOperation
        /\ args[c].payload = NoneV
        /\ args[c].idempotency_key = NoneV
        /\ outcome[c].error.code = PARITY_REASON_CODE("OPERATION_INVALID")


\* ------------------------------------------- an mcp adapter without call_tool

\* C26 (as the specification states it): an mcp adapter constructed without a
\* call_tool function, invoked with a valid operation and payload, raises
\* MCP_CALL_REQUIRED with status 400, retryable = FALSE and attempts = 1 and
\* makes no second attempt, whatever retry_status_codes and retry_codes the
\* adapter was constructed with.
C26_CallToolRequiredIsTerminal ==
    \A c \in DOMAIN pc :
        LET d == Dispatches(c)
        IN (adapter.transport = "mcp" /\ ~adapter.call_tool /\ Len(d) >= 1)
           => /\ Len(d) = 1
              /\ pc[c] = "raised"
              /\ outcome[c].error.type = "NooterraParityError"
              /\ outcome[c].error.code = PARITY_REASON_CODE("MCP_CALL_REQUIRED")
              /\ outcome[c].error.status = 400
              /\ ~outcome[c].error.retryable
              /\ outcome[c].error.attempts = 1

\* the same error, attempted again by an adapter whose retry_status_codes hold 400
C26_Retried ==
    \E c \in DOMAIN pc :
        LET d == Dispatches(c)
        IN /\ adapter.transport = "mcp"
           /\ ~adapter.call_tool
           /\ adapter.raw_retry_status_codes = List(<< 400 >>)
           /\ adapter.max_attempts = 3
           /\ Len(d) = 3
           /\ pc[c] = "raised"
           /\ outcome[c].error.code = PARITY_REASON_CODE("MCP_CALL_REQUIRED")
           /\ outcome[c].error.retryable
           /\ outcome[c].error.attempts = 3


\* --------------------------------------------------- unusable response shape

\* the texts int() reads as a number
Numerals == {<< "200" >>, << "404" >>, << "503" >>}

\* a status int() converts: an int, a bool, a numeral with or without blanks
Convertible(status) ==
    \/ status.t \in {"int", "bool"}
    \/ status.t = "str" /\ Strip(status.v) \in Numerals

\* call_tool answered with something that is not an object, or with an object
\* whose status is there and cannot be converted to an integer
UnusableAnswer(env) ==
    /\ env.kind = "return"
    /\ \/ env.raw.t # "dict"
       \/ /\ Get(env.raw.v, "status").t # "none"
          /\ ~Convertible(Get(env.raw.v, "status"))

\* the latest attempt of call c failed with RESPONSE_INVALID, classified by
\* the retryability rule
ResponseInvalid(c) ==
    LET err == parity_error[c]
    IN /\ outcome[c].kind # "result"
       /\ pc[c] # "returned"
       /\ err.type = "NooterraParityError"
       /\ err.code = PARITY_REASON_CODE("RESPONSE_INVALID")
       /\ err.status = 502
       /\ err.attempts = Len(Dispatches(c))
       /\ err.retryable = RetryableRule(502, err.code)
       /\ DefaultRetrySets => err.retryable

C27_TextStatusAccepted ==
    \E c \in DOMAIN pc :
        LET d == Dispatches(c)
        IN /\ Len(d) = 1
           /\ d[1].env = McpReturn(Dict([ok |-> Bool(TRUE), status |-> Str(S("200"))]))
           /\ pc[c] = "returned"
           /\ outcome[c].result.status = 200


\* ---------------------------------------------------------- success criterion

\* the answer of the transport as {ok, status, body, headers}; usable is FALSE
\* when the answer has no such form (an exception, an unusable shape)
Normalized(env) ==
    LET NoForm == [usable |-> FALSE, ok |-> FALSE, status |-> 0, body |-> NoneV, headers |-> << >>]
    IN CASE env.kind = "response" ->
               [usable |-> TRUE, ok |-> TRUE, status |-> env.status, body |-> env.body,
                headers |-> << >>]
         [] env.kind = "HTTPError" ->
               [usable |-> TRUE, ok |-> FALSE, status |-> env.status, body |-> NoneV,
                headers |-> << >>]
         [] env.kind = "return" /\ ~UnusableAnswer(env) ->
               LET r == env.raw.v
                   failed == Get(r, "ok") = Bool(FALSE) \/ Get(r, "error").t # "none"
               IN [usable |-> TRUE,
                   ok |-> ~failed,
                   status |-> IF Get(r, "status").t = "none"
                              THEN (IF failed THEN 500 ELSE 200)
                              ELSE IntOf(Get(r, "status")).v,
                   body |-> Get(r, "body"),
                   headers |-> normalize_headers_record(Get(r, "headers"))]
         [] OTHER -> NoForm

Accepted(env) == Normalized(env).usable /\ Normalized(env).ok /\ Normalized(env).status < 400

\* C28: invoke returns a success result exactly when the normalized response
\* of an attempt has ok true and a status below 400 (that attempt is then the
\* last one); the result has ok = TRUE, the status, body and headers of that
\* response, the transport of the adapter, the resolved operationId, the
\* idempotency key of the caller (trimmed) and attempts = the number of that
\* attempt.  A response with ok false and a status below 400 fails, and so does
\* a response with ok true and a status of 400 or more.
C28_SuccessCriterion ==
    \A c \in DOMAIN pc :
        LET d == Dispatches(c)
            k == Len(d)
            result == outcome[c].result
            response == Normalized(d[k].env)
        IN /\ (pc[c] = "returned" \/ outcome[c].kind = "result")
              => k >= 1 /\ d[k].wire /\ Accepted(d[k].env)
           /\ \A i \in 1..(k - 1) : ~(d[i].wire /\ Accepted(d[i].env))
           /\ (k >= 1 /\ d[k].wire /\ Accepted(d[k].env))
              => /\ pc[c] = "returned"
                 /\ outcome[c].kind = "result"
                 /\ result.ok
                 /\ result.status = response.status
                 /\ result.body = response.body
                 /\ result.headers = response.headers
                 /\ result.transport = adapter.transport
                 /\ result.operationId = Strip(Get(args[c].operation.v, "operationId").v)
                 /\ result.idempotencyKey =
                       (IF BlankKey(args[c].idempotency_key) THEN None
                        ELSE Strip(args[c].idempotency_key.v))
                 /\ result.attempts = k

C28_Witness ==
    \E c \in DOMAIN pc :
        LET d == Dispatches(c)
        IN /\ adapter.transport = "mcp"
           /\ Len(d) = 3
           /\ d[1].env = McpReturn(Dict([ok |-> Bool(FALSE), status |-> Int_(200),
                                         code |-> Str(S("busy"))]))
           /\ d[2].env = McpReturn(Dict([ok |-> Bool(TRUE), status |-> Int_(503)]))
           /\ d[3].env = McpReturn(Dict([ok |-> Bool(TRUE), status |-> Int_(200),
                                         body |-> Int_(1)]))
           /\ pc[c] = "returned"
           /\ outcome[c].result.status = 200
           /\ outcome[c].result.body = Int_(1)
           /\ outcome[c].result.idempotencyKey = << "k", "1" >>
           /\ outcome[c].result.attempts = 3

C28_WitnessHttp ==
    \E c \in DOMAIN pc :
        LET d == Dispatches(c)
        IN /\ adapter.transport = "http"
           /\ Len(d) = 2
           /\ d[1].env.kind = "HTTPError"
           /\ d[2].env.kind = "response"
           /\ pc[c] = "returned"
           /\ outcome[c].result.attempts = 2
           /\ outcome[c].result.transport = "http"


\* ----------------------------------------------------- sha256 field validation

\* a string of exactly 64 hexadecimal characters
ExactSha256Hex(value) ==
    /\ value.t = "str"
    /\ Len(value.v) = Sha256HexLen
    /\ \A i \in 1..Len(value.v) : value.v[i] \in HexDigits \union {"A", "B", "C", "D", "E", "F"}

\* C29 (as the specification states it): invoke raises SHA256_FIELD_INVALID,
\* naming the field and without a transport call, for every payload in which a
\* sha256Fields path resolves to anything other than a string of exactly 64
\* hexadecimal characters (a missing value, a non-string, a string of another
\* length such as a 64-hex string with blanks around it, a non-hex character),
\* the payload passing the checks made before.
C29_Sha256FieldInvalid ==
    \A c \in DOMAIN pc :
        LET op == resolved[c].operation
            payload == args[c].payload
            Inexact(path) == ~ExactSha256Hex(get_value_at_path(payload, path))
        IN (/\ pc[c] # "idle"
            /\ op # NoneV
            /\ payload.t = "dict"
            /\ \A i \in 1..Len(op.requiredFields) : ~Absent(payload, op.requiredFields[i])
            /\ \E i \in 1..Len(op.sha256Fields) : Inexact(op.sha256Fields[i]))
           => /\ pc[c] = "raised"
              /\ attempt[c] = 0
              /\ trace[c] = << >>
              /\ outcome[c].error.code = PARITY_REASON_CODE("SHA256_FIELD_INVALID")
              /\ outcome[c].error.details =
                    Dict([field |-> Str(FirstField(op.sha256Fields, Inexact))])

\* a digest of 64 hex characters with a blank on each side, dispatched as it is
C29_PaddedDigestDispatched ==
    \E c \in DOMAIN pc :
        LET d == Dispatches(c)
        IN /\ args[c].operation = FieldsOperation
           /\ args[c].payload =
                 NestedPayload(Str(S("n")), Str(<< " " >> \o Hash("b") \o << " " >>))
           /\ Len(d) = 1
           /\ d[1].wire
           /\ d[1].request.body = args[c].payload
           /\ pc[c] = "returned"


\* --------------------------------------------- supplied chain hash validity

\* a text of 64 hexadecimal characters, blanks around it aside
ValidChainHash(value) ==
    /\ value.t = "str"
    /\ Len(Strip(value.v)) = Sha256HexLen
    /\ \A i \in 1..Len(Strip(value.v)) :
          Strip(value.v)[i] \in HexDigits \union {"A", "B", "C", "D", "E", "F"}

\* invoke has raised a validation error for call c without any transport call
TerminalValidationError(c) ==
    /\ pc[c] = "raised"
    /\ attempt[c] = 0
    /\ trace[c] = << >>
    /\ outcome[c].error.type = "NooterraParityError"
    /\ outcome[c].error.code \in ValidationCodes
    /\ outcome[c].error.status = 400
    /\ ~outcome[c].error.retryable

\* C30: when a non-blank expected previous chain hash is passed to invoke and
\* it is not valid sha256 hex, invoke raises a validation Parity Error (status
\* 400, retryable = FALSE) without any transport call, whether or not the
\* operation sets expectedPrevChainHashRequired; when the operation requires
\* the hash and none is passed, invoke raises EXPECTED_PREV_CHAIN_HASH_REQUIRED
\* without any transport call.  Both errors have that code once the earlier
\* checks have passed.
C30_SuppliedChainHash ==
    \A c \in DOMAIN pc :
        LET op == resolved[c].operation
            prev == args[c].expected_prev_chain_hash
            invalid == ~BlankKey(prev) /\ ~ValidChainHash(prev)
            missing == op # NoneV /\ op.expectedPrevChainHashRequired /\ BlankKey(prev)
            reached == /\ PayloadChecksPass(c)
                       /\ ~(op.idempotencyRequired /\ BlankKey(args[c].idempotency_key))
        IN (pc[c] # "idle" /\ (invalid \/ missing))
           => /\ TerminalValidationError(c)
              /\ reached
                 => /\ outcome[c].error.code =
                          PARITY_REASON_CODE("EXPECTED_PREV_CHAIN_HASH_REQUIRED")
                    /\ missing => outcome[c].error.message =
                                      S("expected_prev_chain_hash is required")
                    /\ invalid => outcome[c].error.message =
                                      S("expected_prev_chain_hash must be sha256 hex")

C30_Witness ==
    \E c \in DOMAIN pc :
        /\ args[c].operation = GoodOperation
        /\ args[c].payload = GoodPayload
        /\ args[c].idempotency_key = PaddedKey
        /\ args[c].expected_prev_chain_hash = Str(S("xyz"))
        /\ TerminalValidationError(c)
        /\ outcome[c].error.message = S("expected_prev_chain_hash must be sha256 hex")

C30_WitnessRequired ==
    \E c \in DOMAIN pc :
        /\ args[c].operation = FieldsOperation
        /\ args[c].payload = NestedPayload(Str(S("n")), Str(Hash("b")))
        /\ args[c].idempotency_key = PaddedKey
        /\ args[c].expected_prev_chain_hash = NoneV
        /\ TerminalValidationError(c)
        /\ outcome[c].error.message = S("expected_prev_chain_hash is required")


\* ------------------------------------------- pulls of the event stream reader

\* all the calls of readline() made so far: those that returned a chunk and
\* the one that found the end of the stream
ReadCalls == nread + (IF sse_pc = "ended" THEN 1 ELSE 0)

\* C31 (as the specification states it): each pull of the next event performs
\* exactly one blocking line read of the connection.
C31_OneReadPerPull ==
    (Suspended \/ sse_pc = "ended") => pull_reads = 1

\* C31: a pull of the next event reads the connection one line at a time until
\* a block that yields an event is closed: the pull that yields an event has
\* made one readline() call for every line of the event's block and one for
\* the blank line or the end of the stream that closes it, so at least two for
\* an event closed by a blank line; the first pull has made every call made so
\* far, and every later pull only calls made after the yield before it.
C31_PullReads ==
    /\ pull_reads <= ReadCalls
    /\ nread > 0 => pull_reads >= 1
    /\ Suspended
       => /\ pull_reads >= Len(boundary.lines) + 1
          /\ ~boundary.at_end => pull_reads >= 2
          /\ Len(yielded) = 1 => pull_reads = ReadCalls
          /\ Len(yielded) >= 2 => pull_reads < ReadCalls

\* the second pull read two lines: the data line and the blank line
C31_Witness ==
    /\ Suspended
    /\ Len(yielded) = 2
    /\ nread = 4
    /\ pull_reads = 2
    /\ boundary.lines = << << "data", ":", " ", "null" >> >>
    /\ ~boundary.at_end

\* a pull that went through a comment block without an event before its event
C31_WitnessSuppressed ==
    /\ Suspended
    /\ Len(yielded) = 1
    /\ pull_reads = 4
    /\ Len(boundary.lines) = 1


\* ------------------------------------------------------ event payload decoding

\* the JSON documents of the stream and the values they encode
JsonDocuments == {"null", "7", "{x:1}"}

DocumentValue(doc) ==
    CASE doc = "null" -> NoneV
      [] doc = "7" -> Int_(7)
      [] doc = "{x:1}" -> Dict([x |-> Int_(1)])

\* the payload of an event with the given raw data
PayloadOf(raw) ==
    LET text == Strip(raw)
    IN IF raw = << "null" >> THEN NoneV
       ELSE IF Len(text) = 1 /\ text[1] \in JsonDocuments THEN DocumentValue(text[1])
       ELSE Str(raw)

\* a block with at least one data line has been closed
DataBlockEmitted == boundary.n >= 1 /\ FieldLines(boundary.lines, "data") # {}

\* C32: the event of a block with at least one data line has, as data, the
\* JSON decoding of its rawData when rawData is valid JSON, null when rawData
\* is the token null, and rawData itself when the decoding fails; a block
\* whose data: field is blank is emitted, with rawData "" (and that empty
\* string as data), whether or not the block has comment lines.
C32_PayloadDecoding ==
    DataBlockEmitted
    => /\ Len(boundary.yielded) = 1
       /\ boundary.yielded[1].rawData = JoinLines(DataValues(boundary.lines))
       /\ boundary.yielded[1].data = PayloadOf(boundary.yielded[1].rawData)
       /\ DataValues(boundary.lines) = << << >> >>
          => /\ boundary.yielded[1].rawData = << >>
             /\ boundary.yielded[1].data = Str(<< >>)
             /\ yielded = boundary.before \o boundary.yielded

\* a comment line and a data field without a value, closed by a blank line
C32_Witness ==
    /\ boundary.lines = << << ":", " ", "ping" >>, << "data" >> >>
    /\ ~boundary.at_end
    /\ Len(boundary.yielded) = 1
    /\ boundary.yielded[1].rawData = << >>
    /\ boundary.yielded[1].data = Str(<< >>)
    /\ Len(yielded) = 1

C32_WitnessJson ==
    /\ boundary.lines = << << "data", ":", " ", "{x:1}" >> >>
    /\ boundary.yielded[1].data = Dict([x |-> Int_(1)])

C32_WitnessText ==
    /\ boundary.lines = << << "data", ":", " ", "null" >>, << "data", ":", " ", " ", "x" >> >>
    /\ boundary.yielded[1].data = Str(<< "null", "\n", " ", "x" >>)


\* ---- settlement chain linkage

\* settle came back with its return value
SettleReturned == art_hold.op = "settle" /\ art_hold.out.ok
SettleValue(key) == OGet(art_hold.out.settled.v, key)
HoldSent(key) == OGet(art_hold.out.requests[1].body.v, key)
NoReceiptHashSupplied == HoldParam("receiptHash", NoneV) = NoneV

\* C33: the hold request that settle sends carries the agreementHash and the
\* receiptHash that settle returns; when the caller supplies no receiptHash,
\* the returned receiptHash is the digest of the returned
\* ToolCallSettlementReceiptRef.v1 record, whose agreementHash is the hold's;
\* a successful settle sends exactly one hold request.
C33_SettleChainLinkage ==
    SettleReturned =>
        /\ Len(art_hold.out.requests) = 1
        /\ art_hold.out.requests[1].path = "/ops/tool-calls/holds/lock"
        /\ HoldSent("agreementHash") = SettleValue("agreementHash")
        /\ HoldSent("receiptHash") = SettleValue("receiptHash")
        /\ OGet(SettleValue("receiptRef").v, "schemaVersion")
               = Str(S("ToolCallSettlementReceiptRef.v1"))
        /\ OGet(SettleValue("receiptRef").v, "agreementHash") = HoldSent("agreementHash")
        /\ NoReceiptHashSupplied
               => SettleValue("receiptHash") = Str(Digest(SettleValue("receiptRef")))

C33_Witness ==
    /\ SettleReturned /\ NoReceiptHashSupplied
    /\ Len(art_hold.out.requests) = 1
    /\ HoldSent("receiptHash") = Str(Digest(SettleValue("receiptRef")))
    /\ HoldSent("agreementHash") = SettleValue("agreementHash")

C33_WitnessSupplied ==
    /\ SettleReturned /\ HoldParam("receiptHash", NoneV) = Str(Hash("b"))
    /\ HoldSent("receiptHash") = Str(Hash("b"))
    /\ SettleValue("receiptHash") # Str(Digest(SettleValue("receiptRef")))


\* ---- the dispute-open envelope

HashKeys == {"agreementHash", "receiptHash", "holdHash"}
HexText(text) == Len(text) = Sha256HexLen /\ \A i \in 1..Len(text) : text[i] \in HexDigits
ReasonCodeText(text) ==
    /\ Len(text) >= ReasonCodeMinLen /\ Len(text) <= ReasonCodeMaxLen
    /\ \A i \in 1..Len(text) : text[i] \in ReasonCodeChars

EnvelopeCalled ==
    art_envelope.op = "build_dispute_open_envelope" /\ art_envelope.params.t = "odict"
EnvelopeParam(key) == OGet(art_envelope.params.v, key)
EnvelopeBuilt == EnvelopeCalled /\ art_envelope.out.ok
ReasonCodeSupplied == Truthy(EnvelopeParam("reasonCode"))

\* what the caller gave, upper- or lower-cased, with and without its
\* surrounding blanks
LowerCased(value) == IF value.t = "str" THEN Lower(value.v) ELSE << >>
UpperCased(value) == IF value.t = "str" THEN Upper(value.v) ELSE << >>

\* open_dispute was left to build the envelope
DisputeCalled == art_dispute.op = "open_dispute" /\ art_dispute.params.t = "odict"
DisputeParam(key) == OGet(art_dispute.params.v, key)
OverrideEnabled ==
    /\ DisputeParam("adminOverride").t = "odict"
    /\ Truthy(OGet(DisputeParam("adminOverride").v, "enabled"))
HasToBuild == DisputeCalled /\ DisputeParam("disputeOpenEnvelope").t # "odict" /\ ~OverrideEnabled
OpenedByMissing == as_non_empty_string_or_none(DisputeParam("openedByAgentId")) = None
ConstructionFailed == art_dispute.out.built # NotBuilt /\ ~art_dispute.out.built.ok
NoDisputeRequest == ~art_dispute.out.ok /\ art_dispute.out.requests = << >>

DisputeFailsUnsent == HasToBuild /\ (OpenedByMissing \/ ConstructionFailed) => NoDisputeRequest

C34_WitnessPadded ==
    /\ EnvelopeBuilt
    /\ EnvelopeParam("agreementHash") = Str(<< " " >> \o Hash("A"))
    /\ Field(art_envelope.out.artifact, "agreementHash") = Str(Hash("a"))
    /\ Field(art_envelope.out.artifact, "reasonCode") = Str(DefaultReasonCode)

C34_WitnessRefused ==
    /\ EnvelopeCalled /\ ~art_envelope.out.ok
    /\ EnvelopeParam("reasonCode") = Str(<< "a", "-", "b" >>)

C34_WitnessConstructionFailed ==
    /\ HasToBuild /\ ConstructionFailed /\ ~OpenedByMissing /\ NoDisputeRequest
    /\ DisputeParam("signerKeyId") = NoneV

C34_WitnessOpenedByMissing == HasToBuild /\ OpenedByMissing /\ NoDisputeRequest

C34_WitnessSent ==
    /\ HasToBuild /\ art_dispute.out.ok /\ Len(art_dispute.out.requests) = 1
    /\ art_dispute.out.built.ok
    /\ OGet(art_dispute.out.requests[1].body.v, "disputeOpenEnvelope")
           = art_dispute.out.built.artifact

C34_WitnessOverride ==
    /\ DisputeCalled /\ OverrideEnabled /\ OpenedByMissing
    /\ Len(art_dispute.out.requests) = 1


\* ---- bounds on the attempt count

\* invoke has finished for call c; with a validation error when it raised one
\* of the validation codes before any call of the dispatcher
InvokeFinished(c) == pc[c] \in {"returned", "raised"}
ValidationFailed(c) ==
    /\ pc[c] = "raised" /\ trace[c] = << >>
    /\ outcome[c].error.type = "NooterraParityError"
    /\ outcome[c].error.code \in ValidationCodes
ValidationPassed(c) == pc[c] # "idle" /\ ~ValidationFailed(c)
RaisedParityError(c) == pc[c] = "raised" /\ outcome[c].error.type = "NooterraParityError"
AttemptsWithinBounds(n) == 1 <= n /\ n <= adapter.max_attempts

\* C35: the adapter's max_attempts is at least 1; at every moment of an
\* invoke the dispatcher has been called between 0 and max_attempts times, and
\* at least once when invoke has finished after validation passed; attempts of
\* every success result and of every Parity Error invoke raises lies in
\* 1..max_attempts and, for an outcome of the dispatch phase, is the number of
\* calls of the dispatcher made.
C35_AttemptCountBounds ==
    /\ adapter.max_attempts >= 1
    /\ \A c \in DOMAIN pc :
          /\ Len(Dispatches(c)) <= adapter.max_attempts
          /\ InvokeFinished(c) /\ ValidationPassed(c) => Len(Dispatches(c)) >= 1
          /\ pc[c] = "returned"
                => /\ AttemptsWithinBounds(outcome[c].result.attempts)
                   /\ outcome[c].result.attempts = Len(Dispatches(c))
          /\ RaisedParityError(c)
                => /\ AttemptsWithinBounds(outcome[c].error.attempts)
                   /\ ValidationPassed(c) => outcome[c].error.attempts = Len(Dispatches(c))

C35_Witness ==
    \E c \in DOMAIN pc :
        /\ RaisedParityError(c) /\ ValidationPassed(c)
        /\ adapter.max_attempts = 3
        /\ Len(Dispatches(c)) = 3
        /\ outcome[c].error.attempts = 3
        /\ outcome[c].error.retryable

C35_WitnessSuccess ==
    \E c \in DOMAIN pc :
        /\ pc[c] = "returned" /\ adapter.max_attempts = 3
        /\ outcome[c].result.attempts = 2 /\ Len(Dispatches(c)) = 2

C35_WitnessValidation ==
    \E c \in DOMAIN pc :
        /\ ValidationFailed(c) /\ outcome[c].error.attempts = 1 /\ Len(Dispatches(c)) = 0


\* ---- termination of invoke

InLoop(c) == pc[c] \in {"attempt", "delay"}

\* C36: when every call of the dispatcher comes back and every sleep ends, an
\* invoke that has entered its loop finishes, with a result or an error, and
\* at no moment has it called the dispatcher more than max_attempts times.
C36_Termination ==
    \A c \in Calls :
        /\ [](Len(Dispatches(c)) <= adapter.max_attempts)
        /\ InLoop(c) ~> InvokeFinished(c)

\* the transport failed retryably on every attempt, and invoke has finished
C36_Witness ==
    \E c \in Calls :
        /\ pc[c] = "raised"
        /\ adapter.max_attempts = 3
        /\ Len(Dispatches(c)) = adapter.max_attempts
        /\ \A i \in 1..Len(Dispatches(c)) : Unavailable(Dispatches(c)[i].env)
        /\ outcome[c].error.retryable
        /\ outcome[c].error.status = 503


\* ---- errors the dispatcher raises

\* the except clause has just classified the failure of the latest call of
\* the dispatcher
JustClassified(c) ==
    /\ pc[c] \in {"delay", "raised"}
    /\ trace[c] # << >>
    /\ IsDispatch(trace[c][Len(trace[c])])

\* what that call of the dispatcher returned or raised
DispatcherOutcome(c) ==
    LET d == trace[c][Len(trace[c])]
        res == resolved[c]
    IN IF ~d.wire THEN Raised(mcp_call_required(res.operation, res.idempotency_key))
       ELSE IF adapter.transport = "http" THEN client_response(d.env)
       ELSE mcp_response(res.operation, res.request_id, res.idempotency_key, d.env)

DispatcherRaised(c) ==
    /\ JustClassified(c)
    /\ DispatcherOutcome(c).raised
    /\ DispatcherOutcome(c).exc.type \in {"NooterraParityError", "NooterraApiError"}

\* the code of an error: its own, trimmed, or REQUEST_REJECTED when it has none
CodeOf(exc) ==
    IF exc.code # None /\ Strip(exc.code) # << >> THEN Strip(exc.code)
    ELSE PARITY_REASON_CODE("REQUEST_REJECTED")

\* C37: when the dispatcher raises a Parity Error or an API error, the error
\* invoke classifies (and raises, when it raises) has that error's status,
\* code (REQUEST_REJECTED when it has none), message and details; its retryable
\* is what the adapter's retry configuration gives for that status and code,
\* and its attempts is the number of the current attempt, whatever retryable
\* and attempts the raised error carried.
C37_AdapterClassifies ==
    \A c \in DOMAIN pc :
        DispatcherRaised(c)
        => LET exc == DispatcherOutcome(c).exc
           IN /\ parity_error[c].type = "NooterraParityError"
              /\ parity_error[c].status = exc.status
              /\ parity_error[c].code = CodeOf(exc)
              /\ parity_error[c].message = exc.message
              /\ parity_error[c].details = exc.details
              /\ parity_error[c].retryable = RetryableRule(exc.status, CodeOf(exc))
              /\ parity_error[c].attempts = attempt[c]
              /\ attempt[c] = Len(Dispatches(c))
              /\ pc[c] = "raised" => outcome[c].error = parity_error[c]

\* the dispatcher raised an error marked retryable with attempts 7; the adapter
\* classified it as terminal and counted one attempt
C37_Witness ==
    \E c \in DOMAIN pc :
        /\ DispatcherRaised(c)
        /\ DispatcherOutcome(c).exc.type = "NooterraParityError"
        /\ DispatcherOutcome(c).exc.retryable
        /\ DispatcherOutcome(c).exc.attempts = 7
        /\ pc[c] = "raised"
        /\ ~outcome[c].error.retryable
        /\ outcome[c].error.attempts = 1
        /\ outcome[c].error.status = 400

\* an API error, which carries no retryable, classified retryable on the
\* second attempt
C37_WitnessApiError ==
    \E c \in DOMAIN pc :
        /\ DispatcherRaised(c)
        /\ DispatcherOutcome(c).exc.type = "NooterraApiError"
        /\ DispatcherOutcome(c).exc.status = 503
        /\ parity_error[c].retryable
        /\ parity_error[c].attempts = 2


\* ---- the raise after the loop

\* the error of the raise after the loop of invoke
IsFallback(err) ==
    /\ err.type = "NooterraParityError"
    /\ err.status = 500
    /\ err.code = PARITY_REASON_CODE("REQUEST_REJECTED")
    /\ err.message = S("request failed")

\* the error came out of the except clause: the coerced error of an attempt
\* that is not beyond max_attempts
CoercedErrorOfAnAttempt(c) ==
    /\ outcome[c].error.type = "NooterraParityError"
    /\ outcome[c].error = parity_error[c]
    /\ outcome[c].error.attempts = attempt[c]
    /\ attempt[c] <= adapter.max_attempts

\* C39: invoke never raises the "request failed" error (status 500,
\* REQUEST_REJECTED) of the statement after its loop: an invoke that entered
\* the loop and has finished either returned a success result or raised the
\* coerced error of an attempt at or before attempt max_attempts.
C39_UnreachableFallback ==
    \A c \in DOMAIN pc :
        /\ pc[c] = "raised" => ~IsFallback(outcome[c].error)
        /\ InvokeFinished(c) /\ attempt[c] >= 1
              => \/ pc[c] = "returned" /\ outcome[c].kind = "result"
                 \/ pc[c] = "raised" /\ CoercedErrorOfAnAttempt(c)

\* the first half alone: no invoke raises the error of the statement after the
\* loop
C39_FallbackNeverRaised ==
    \A c \in DOMAIN pc : pc[c] = "raised" => ~IsFallback(outcome[c].error)

\* the last attempt failed retryably and invoke raised its error, not the
\* fallback
C39_WitnessExhausted ==
    \E c \in DOMAIN pc :
        /\ pc[c] = "raised" /\ attempt[c] = adapter.max_attempts /\ adapter.max_attempts = 2
        /\ CoercedErrorOfAnAttempt(c)
        /\ outcome[c].error.retryable

\* the loop was left by an error that is no coerced error of an attempt
C39_WitnessDelayError ==
    \E c \in DOMAIN pc :
        /\ pc[c] = "raised" /\ attempt[c] = 1 /\ adapter.max_attempts = 3
        /\ outcome[c].error.type = "ValueError"
        /\ parity_error[c].retryable
        /\ adapter.retry_delay_seconds = Int_(-1)


\* ---- the order of first_verified_run

StepOrder ==
    << "register_payee", "register_payer", "credit_payer_wallet", "create_run", "RUN_STARTED",
       "EVIDENCE_ADDED", "RUN_COMPLETED", "get_run", "get_verification", "get_settlement" >>

OptionalSteps == {"register_payer", "credit_payer_wallet", "get_settlement"}

Position(step) == CHOOSE k \in 1..Len(StepOrder) : StepOrder[k] = step

RequestsSent == {i \in 1..Len(run_log) : run_log[i].kind = "request"}

\* the requests were sent in the fixed order, none twice
InFixedOrder ==
    \A i, j \in RequestsSent : i < j => Position(run_log[i].step) < Position(run_log[j].step)

\* no request was sent before the requests that are not optional and come before it
NoneSkipped ==
    \A j \in RequestsSent :
       \A k \in 1..(Position(run_log[j].step) - 1) :
          StepOrder[k] \notin OptionalSteps
          => \E i \in RequestsSent : i < j /\ run_log[i].step = StepOrder[k]

\* every request but the first comes right after the response to the request before it
AfterPreviousResponse ==
    \A j \in RequestsSent :
       j > 1 => /\ j > 2
                /\ run_log[j - 1].kind = "response"
                /\ run_log[j - 2].kind = "request"
                /\ run_log[j - 1].step = run_log[j - 2].step

\* the request raised: no response to it was received
RequestRaised(i) == i = Len(run_log) \/ run_log[i + 1].kind # "response"

\* the response to request i lacks the id or the chain hash the next step needs
LacksNeeded(i) ==
    /\ ~RequestRaised(i)
    /\ \/ /\ run_log[i].step \in {"register_payee", "register_payer"}
          /\ ~assert_non_empty_string(run_log[i + 1].id).ok
       \/ /\ run_log[i].step = "create_run"
          /\ ~assert_non_empty_string(RunField(run_log[i + 1].run, "runId")).ok
       \/ /\ run_log[i].step \in {"create_run", "RUN_STARTED", "EVIDENCE_ADDED"}
          /\ ~assert_non_empty_string(ChainHashOf(run_log[i + 1])).ok

\* the workflow failed at request i and sent nothing after it
AbortedAt(i) == run_pc = "raised" /\ \A j \in RequestsSent : j <= i

DistinctKeys ==
    \A i, j \in RequestsSent :
       /\ run_log[i].key.t = "str"
       /\ i # j => run_log[i].key # run_log[j].key

\* C38: first_verified_run sends its requests in the fixed order register
\* payee, [register payer], [credit payer wallet], create run, RUN_STARTED,
\* EVIDENCE_ADDED, RUN_COMPLETED, get run, get verification, [get settlement],
\* none twice and none of the mandatory ones skipped, each right after the
\* response to the one before it; once a request raises or its response lacks
\* the id or chain hash the next step needs, the workflow has failed and no
\* later request was sent; and every request carries an idempotency key that
\* no other request of the run carries.
C38_WorkflowOrder ==
    run_flow.name = "first_verified_run"
    => /\ InFixedOrder
       /\ NoneSkipped
       /\ AfterPreviousResponse
       /\ \A i \in RequestsSent : RequestRaised(i) \/ LacksNeeded(i) => AbortedAt(i)
       /\ DistinctKeys

\* a run with a payer, a credit and a settlement: all ten requests, in order
C38_Witness ==
    /\ run_flow.name = "first_verified_run"
    /\ run_pc = "done"
    /\ Len(run_log) = 2 * Len(StepOrder)
    /\ \A k \in 1..Len(StepOrder) : run_log[2 * k - 1].step = StepOrder[k]
    /\ run_log[1].key = Str(<< "mine", "_", "register_payee" >>)
    /\ run_log[9].key = Str(<< "mine", "_", "run_started" >>)

\* a run without payer, credit or settlement: the seven mandatory requests
C38_WitnessMandatory ==
    /\ run_flow.name = "first_verified_run"
    /\ run_pc = "done"
    /\ Cardinality(RequestsSent) = Len(StepOrder) - Cardinality(OptionalSteps)
    /\ run_log[1].key = Str(<< "sdk_", "first_verified_run", "_", "18f_0a1b2c", "_", "register_payee" >>)

\* the payer's registration answered without an agentId: nothing after it
C38_WitnessLacksId ==
    /\ run_flow.name = "first_verified_run"
    /\ Len(run_log) = 4
    /\ run_log[3].step = "register_payer"
    /\ LacksNeeded(3)
    /\ AbortedAt(3)

\* the evidence append raised: nothing after it
C38_WitnessRaised ==
    /\ run_flow.name = "first_verified_run"
    /\ run_log # << >>
    /\ run_log[Len(run_log)].kind = "request"
    /\ run_log[Len(run_log)].step = "EVIDENCE_ADDED"
    /\ AbortedAt(Len(run_log))

\* the settlement is read because the answer to RUN_COMPLETED holds one
C38_WitnessSettlementAnswered ==
    /\ run_flow.name = "first_verified_run"
    /\ ~run_flow.settlement
    /\ run_pc = "done"
    /\ run_log[Len(run_log)].step = "get_settlement"
    /\ \E i \in 1..Len(run_log) : run_log[i].step = "RUN_COMPLETED" /\ run_log[i].settlement

=============================================================================
